---- MODULE Spec2Model ----
(***************************************************************************)
(* Model of the note store of the speech-to-text application:              *)
(*   src/src/services/database.ts  (DatabaseService)                       *)
(*   src/src/services/search.ts    (SearchService)                         *)
(*                                                                         *)
(* The backing file is modelled by the tables the code reads and writes    *)
(* (transcriptions, the FTS5 index transcriptions_fts, sqlite_sequence,    *)
(* tags, note_tags); the backup file is a copy of those.  Strings are      *)
(* sequences of one-character strings so that tokenising, regular          *)
(* expression matching, trimming and case folding are computed.            *)
(***************************************************************************)
EXTENDS Integers, Sequences, FiniteSets, TLC

\* ------------------------------------------------------------------ bounds
\* Highest id the store hands out in a run (number of inserts explored).
MaxId == 2

\* Longest query string handed to parseQuery alone, in pieces (words, directives).
MaxPieces == 3

\* Highest id of a dictionary entry in a run (number of entries explored).
MaxEntryId == 2

\* Most microphone streams asked for in a run (calls of startRecording explored).
MaxStreams == 2

\* ------------------------------------------------------------ optionals
\* A JavaScript optional value: <<>> is undefined, <<v>> is the value v.
Undefined == <<>>
Some(v) == <<v>>
IsDefined(x) == x # <<>>

\* JavaScript truthiness of an optional number: undefined and 0 are falsy.
Truthy(x) == IsDefined(x) /\ x[1] # 0

\* JavaScript truthiness of an optional string: undefined and '' are falsy.
TruthyStr(x) == IsDefined(x) /\ x[1] # <<>>

\* ------------------------------------------------------------ characters
LowerCase == <<"a","b","c","d","e","f","g","h","i","j","k","l","m",
               "n","o","p","q","r","s","t","u","v","w","x","y","z">>
UpperCase == <<"A","B","C","D","E","F","G","H","I","J","K","L","M",
               "N","O","P","Q","R","S","T","U","V","W","X","Y","Z">>
Digits == {"0","1","2","3","4","5","6","7","8","9"}

Range(f) == {f[i] : i \in DOMAIN f}

\* String.prototype.toLowerCase on one character.
LowerChar(c) ==
  IF c \in Range(UpperCase)
    THEN LowerCase[CHOOSE i \in 1..26 : UpperCase[i] = c]
    ELSE c

\* String.prototype.toLowerCase.
ToLowerCase(s) == [i \in 1..Len(s) |-> LowerChar(s[i])]

\* The regular expression class \w.
IsWordChar(c) == c \in Range(LowerCase) \cup Range(UpperCase) \cup Digits \cup {"_"}

\* The characters the FTS5 unicode61 tokenizer keeps inside a token.
IsTokenChar(c) == c \in Range(LowerCase) \cup Range(UpperCase) \cup Digits

\* ------------------------------------------------------------- FTS5 index
\* The tokens the FTS5 tokenizer (unicode61, the default) makes of a text:
\* maximal runs of letters and digits, case-folded.
RECURSIVE TokensFrom(_, _, _, _)
TokensFrom(s, i, cur, acc) ==
  IF i > Len(s)
    THEN IF cur = <<>> THEN acc ELSE acc \cup {cur}
    ELSE IF IsTokenChar(s[i])
      THEN TokensFrom(s, i + 1, Append(cur, LowerChar(s[i])), acc)
      ELSE TokensFrom(s, i + 1, <<>>, IF cur = <<>> THEN acc ELSE acc \cup {cur})

Tokens(s) == TokensFrom(s, 1, <<>>, {})

\* The index entries (rowid, column, token) of one row's two indexed columns.
Postings(rowid, raw_text, formatted_text) ==
  {<<rowid, "raw_text", t>> : t \in Tokens(raw_text)}
    \cup {<<rowid, "formatted_text", t>> : t \in Tokens(formatted_text)}

\* transcriptions_fts is an external-content FTS5 table (content='transcriptions',
\* content_rowid='id'): it stores the index only, and whenever it needs a row's
\* column values (to find a row by rowid, to remove a row's tokens) it reads
\* them from the content table as that table is at that moment.
ContentRow(content, rowid) ==
  IF rowid \in DOMAIN content THEN Some(content[rowid]) ELSE Undefined

\* INSERT INTO transcriptions_fts(rowid, raw_text, formatted_text) VALUES (...).
Fts5Insert(fts, rowid, raw_text, formatted_text) ==
  fts \cup Postings(rowid, raw_text, formatted_text)

\* DELETE FROM transcriptions_fts WHERE rowid = ?: the row is looked up in the
\* content table; when it is there, the tokens of its content-table values are
\* removed from the index; when it is not, no row matches the WHERE clause.
Fts5Delete(fts, content, rowid) ==
  LET r == ContentRow(content, rowid) IN
  IF IsDefined(r)
    THEN fts \ Postings(rowid, r[1].raw_text, r[1].formatted_text)
    ELSE fts

\* UPDATE transcriptions_fts SET raw_text = ?, formatted_text = ? WHERE rowid = ?:
\* for a row the content table has, the tokens of the content-table values are
\* removed and the tokens of the new values are added.
Fts5Update(fts, content, rowid, raw_text, formatted_text) ==
  LET r == ContentRow(content, rowid) IN
  IF IsDefined(r)
    THEN Fts5Insert(Fts5Delete(fts, content, rowid), rowid, raw_text, formatted_text)
    ELSE fts

\* Trigger transcriptions_ai, AFTER INSERT: content is the table after the insert.
transcriptions_ai(fts, content, new) ==
  Fts5Insert(fts, new.id, new.raw_text, new.formatted_text)

\* Trigger transcriptions_ad, AFTER DELETE: content is the table after the delete.
transcriptions_ad(fts, content, old) ==
  Fts5Delete(fts, content, old.id)

\* Trigger transcriptions_au, AFTER UPDATE: content is the table after the update.
transcriptions_au(fts, content, old, new) ==
  Fts5Update(fts, content, old.id, new.raw_text, new.formatted_text)

\* The rowids the index gives for a MATCH of the tokens in terms (implicit AND;
\* a token may be found in either column).
Fts5Match(fts, terms) ==
  {p[1] : p \in {q \in fts : \A t \in terms : \E c \in {"raw_text", "formatted_text"} :
                                 <<q[1], c, t>> \in fts}}

\* ------------------------------------------------------------------ state
VARIABLES
  transcriptions,      \* table transcriptions: id -> row
  transcriptions_fts,  \* the FTS5 index: set of <<rowid, column, token>>
  sqlite_sequence,     \* AUTOINCREMENT high-water mark of transcriptions
  tags,                \* table tags: set of [id, name]
  note_tags,           \* table note_tags: set of [note_id, tag_id]
  sqlite_master,       \* the schema of the file: names of its tables, indexes, triggers
  schema_version,      \* table schema_version: set of version numbers
  dictionary_entries,  \* table dictionary_entries: id -> row
  bak,                 \* the file transcriptions.db.bak: NoFile or a copy of the tables
  dbOpen,              \* whether this.db is an open connection
  issued,              \* history: the ids saveTranscription has returned so far
  last,                \* the last call: its name, arguments and result
  \* main process, global shortcuts (src/src/main.ts)
  pressedKeys,         \* the key codes seen down and not yet up
  holdShortcut,        \* the hold shortcut, as its parts between '+'
  isTogglePressed,     \* the toggle shortcut has fired and its key is not up yet
  isHoldPressed,       \* the hold shortcut has fired and its key is not up yet
  lastHoldMessage,     \* history: the last of 'start-recording', 'stop-recording' sent
  \* renderer, recording (src/src/renderer/App.tsx)
  isRecording,         \* state isRecording
  isProcessing,        \* state isProcessing
  isRecordingRef,      \* isRecordingRef.current
  isProcessingRef,     \* isProcessingRef.current
  pendingStarts,       \* calls of startRecording that wait for getUserMedia
  streamCount,         \* history: the microphone streams opened so far
  streams,             \* the microphone streams with a track that is not stopped
  streamRef,           \* streamRef.current: a stream, or 0 for null
  recorders,           \* the MediaRecorders made: stream -> "recording" or "inactive"
  mediaRecorderRef,    \* mediaRecorderRef.current: a recorder, or 0 for null
  stopEvents,          \* recorders whose 'stop' event waits for its onstop handler
  processingCount      \* onstop handlers that wait for transcription and paste

\* The state of the shortcut handlers of the main process.
hold == <<pressedKeys, holdShortcut, isTogglePressed, isHoldPressed, lastHoldMessage>>

\* The state of the recording functions of the renderer.
rec == <<isRecording, isProcessing, isRecordingRef, isProcessingRef, pendingStarts,
         streamCount, streams, streamRef, recorders, mediaRecorderRef, stopEvents,
         processingCount>>

\* The state outside the note store.
ui == <<hold, rec>>

vars == <<transcriptions, transcriptions_fts, sqlite_sequence, tags, note_tags,
          sqlite_master, schema_version, dictionary_entries, bak, dbOpen, issued, last,
          hold, rec>>

\* The tables of the live backing file.
file == <<transcriptions, transcriptions_fts, sqlite_sequence, tags, note_tags,
          sqlite_master, schema_version, dictionary_entries>>

NoFile == [exists |-> FALSE]

\* The content of the live backing file, as fs.copyFileSync copies it.
FileImage == [exists |-> TRUE,
              transcriptions |-> transcriptions,
              transcriptions_fts |-> transcriptions_fts,
              sqlite_sequence |-> sqlite_sequence,
              tags |-> tags,
              note_tags |-> note_tags,
              sqlite_master |-> sqlite_master,
              schema_version |-> schema_version,
              dictionary_entries |-> dictionary_entries]

\* The empty function (a table without rows).
NoRows == [i \in {} |-> 0]

\* The main process and the renderer when the application has started: no key
\* is down, holdShortcut is '' (main.ts 399-404), nothing records (App.tsx
\* 65-68, 95-103).
InitUi ==
  /\ pressedKeys = {}
  /\ holdShortcut = <<>>
  /\ isTogglePressed = FALSE
  /\ isHoldPressed = FALSE
  /\ lastHoldMessage = "none"
  /\ isRecording = FALSE
  /\ isProcessing = FALSE
  /\ isRecordingRef = FALSE
  /\ isProcessingRef = FALSE
  /\ pendingStarts = 0
  /\ streamCount = 0
  /\ streams = {}
  /\ streamRef = 0
  /\ recorders = NoRows
  /\ mediaRecorderRef = 0
  /\ stopEvents = {}
  /\ processingCount = 0

\* ------------------------------------------------------------- migration
\* The migration script without the trigger that follows updates.
MigrationScript_NoUpdateTrigger ==
  << "transcriptions", "transcriptions_fts", "transcriptions_ai", "transcriptions_ad",
     "tags", "note_tags", "formatting_profiles", "paste_history",
     "idx_timestamp", "idx_favorite", "idx_created_at", "idx_tags_name",
     "idx_tags_count", "schema_version" >>

\* The tables, triggers and indexes the script of migrate() creates (each with
\* IF NOT EXISTS), in the order of its statements; the statement after them is
\* INSERT INTO schema_version (version) VALUES (1).
MigrationScript ==
  << "transcriptions", "transcriptions_fts", "transcriptions_ai", "transcriptions_ad",
     "transcriptions_au", "tags", "note_tags", "formatting_profiles", "paste_history",
     "idx_timestamp", "idx_favorite", "idx_created_at", "idx_tags_name",
     "idx_tags_count", "schema_version" >>

\* The version the script records.
TargetVersion == 1

\* getSchemaVersion() that reports no version whatever the file holds.
getSchemaVersion_Zero(master, versions) == 0

\* getSchemaVersion(): the version of the first row of schema_version; 0 when
\* the table is missing (the SELECT throws and is caught), is empty, or holds 0.
getSchemaVersion(master, versions) ==
  IF "schema_version" \notin master \/ versions = {}
    THEN 0
    ELSE CHOOSE v \in versions : \A w \in versions : v <= w

\* migrate() whose script records the version before it creates anything.
migrate_VersionFirst(master, versions, failAt) ==
  LET n == Len(MigrationScript)
      made == IF failAt \in 1..n THEN failAt - 1 ELSE n
      created == master \cup {MigrationScript[k] : k \in 1..made}
  IN
  IF getSchemaVersion(master, versions) # 0
    THEN [ok |-> TRUE, sqlite_master |-> master, schema_version |-> versions]
    ELSE [ok |-> failAt = 0,
          sqlite_master |-> created \cup {"schema_version"},
          schema_version |-> versions \cup {TargetVersion}]

\* migrate(): nothing when a version is recorded; otherwise db.exec runs the
\* statements of the script one after the other, each committed on its own,
\* and stops at the first that fails.  failAt is the number of the statement
\* that fails (0: none does); the INSERT also fails when the version is there
\* already.  The value says whether migrate() returned, and what the file holds.
migrate(master, versions, failAt) ==
  LET n == Len(MigrationScript)
      made == IF failAt \in 1..n THEN failAt - 1 ELSE n
      created == master \cup {MigrationScript[k] : k \in 1..made}
  IN
  IF getSchemaVersion(master, versions) # 0
    THEN [ok |-> TRUE, sqlite_master |-> master, schema_version |-> versions]
    ELSE IF failAt # 0 \/ TargetVersion \in versions
      THEN [ok |-> FALSE, sqlite_master |-> created, schema_version |-> versions]
      ELSE [ok |-> TRUE, sqlite_master |-> created,
            schema_version |-> versions \cup {TargetVersion}]

\* The dictionary table DictionaryService works on, created at startup when it
\* is absent.
EnsureDictionary(master) == master \cup {"dictionary_entries"}

\* The state after new DatabaseService() on an absent file: migrate() has
\* created the empty tables, the handle is open, there is no backup file.
Init ==
  /\ transcriptions = NoRows
  /\ transcriptions_fts = {}
  /\ sqlite_sequence = 0
  /\ tags = {}
  /\ note_tags = {}
  /\ sqlite_master = EnsureDictionary(migrate({}, {}, 0).sqlite_master)
  /\ schema_version = migrate({}, {}, 0).schema_version
  /\ dictionary_entries = NoRows
  /\ bak = NoFile
  /\ dbOpen = TRUE
  /\ issued = {}
  /\ InitUi
  /\ last = [op |-> "constructor"]

\* f with key k set to v (k may be new).
Put(f, k, v) == [i \in DOMAIN f \cup {k} |-> IF i = k THEN v ELSE f[i]]

\* f without key k.
Drop(f, k) == [i \in DOMAIN f \ {k} |-> f[i]]

\* ------------------------------------------------------------------- CRUD
\* saveTranscription(data): data has raw_text, formatted_text, timestamp and the
\* optional formatting_profile and is_favorite; now is Date.now().
saveTranscription(data, now) ==
  LET id == sqlite_sequence + 1
      row == [id |-> id,
              raw_text |-> data.raw_text,
              formatted_text |-> data.formatted_text,
              timestamp |-> data.timestamp,
              formatting_profile |->
                IF TruthyStr(data.formatting_profile)
                  THEN data.formatting_profile[1] ELSE <<"c","a","s","u","a","l">>,
              is_favorite |-> IF Truthy(data.is_favorite) THEN data.is_favorite[1] ELSE 0,
              created_at |-> now]
  IN
  /\ dbOpen
  /\ id <= MaxId
  /\ transcriptions' = Put(transcriptions, id, row)
  /\ transcriptions_fts' = transcriptions_ai(transcriptions_fts, transcriptions', row)
  /\ sqlite_sequence' = id
  /\ issued' = issued \cup {id}
  /\ last' = [op |-> "saveTranscription", data |-> data, result |-> id]
  /\ UNCHANGED <<tags, note_tags, sqlite_master, schema_version, dictionary_entries,
               bak, dbOpen>>
  /\ UNCHANGED ui

\* getTranscription(id): the row, or null.
getTranscription(id) ==
  /\ dbOpen
  /\ last' = [op |-> "getTranscription", id |-> id,
              result |-> ContentRow(transcriptions, id)]
  /\ UNCHANGED <<file, bak, dbOpen, issued>>
  /\ UNCHANGED ui

\* The row after an UPDATE that sets all three columns, a column without a
\* provided value to its default.
UpdatedRow_AllColumns(row, updates) ==
  [row EXCEPT
     !.formatted_text = IF IsDefined(updates.formatted_text)
                          THEN updates.formatted_text[1] ELSE <<>>,
     !.formatting_profile = IF IsDefined(updates.formatting_profile)
                              THEN updates.formatting_profile[1]
                              ELSE <<"c","a","s","u","a","l">>,
     !.is_favorite = IF IsDefined(updates.is_favorite)
                       THEN updates.is_favorite[1] ELSE 0]

\* The row after UPDATE transcriptions SET <the provided fields>.
UpdatedRow(row, updates) ==
  [row EXCEPT
     !.formatted_text = IF IsDefined(updates.formatted_text)
                          THEN updates.formatted_text[1] ELSE @,
     !.formatting_profile = IF IsDefined(updates.formatting_profile)
                              THEN updates.formatting_profile[1] ELSE @,
     !.is_favorite = IF IsDefined(updates.is_favorite)
                       THEN updates.is_favorite[1] ELSE @]

\* updateTranscription(id, updates): returns early when no field is provided;
\* otherwise one UPDATE ... WHERE id = ?, which fires transcriptions_au for the
\* row it changes and changes nothing when no row has that id.
updateTranscription(id, updates) ==
  /\ dbOpen
  /\ IF /\ \/ IsDefined(updates.formatted_text)
           \/ IsDefined(updates.formatting_profile)
           \/ IsDefined(updates.is_favorite)
        /\ id \in DOMAIN transcriptions
       THEN LET old == transcriptions[id]
                new == UpdatedRow(old, updates)
            IN /\ transcriptions' = Put(transcriptions, id, new)
               /\ transcriptions_fts' =
                    transcriptions_au(transcriptions_fts, transcriptions', old, new)
       ELSE UNCHANGED <<transcriptions, transcriptions_fts>>
  /\ last' = [op |-> "updateTranscription", id |-> id, updates |-> updates,
              result |-> "void"]
  /\ UNCHANGED <<sqlite_sequence, tags, note_tags, sqlite_master, schema_version,
               dictionary_entries, bak, dbOpen, issued>>
  /\ UNCHANGED ui

\* deleteTranscription with the comparison of its WHERE clause widened (id <= ?).
deleteTranscription_AtMost(id) ==
  /\ dbOpen
  /\ transcriptions' = [i \in {j \in DOMAIN transcriptions : j > id} |-> transcriptions[i]]
  /\ transcriptions_fts' = transcriptions_fts
  /\ note_tags' = {nt \in note_tags : nt.note_id > id}
  /\ last' = [op |-> "deleteTranscription", id |-> id, result |-> "void"]
  /\ UNCHANGED <<sqlite_sequence, tags, sqlite_master, schema_version,
               dictionary_entries, bak, dbOpen, issued>>
  /\ UNCHANGED ui

\* deleteTranscription(id): DELETE ... WHERE id = ?, which fires transcriptions_ad
\* for the row it removes; note_tags rows of the note go with it (ON DELETE
\* CASCADE, foreign_keys = ON).
deleteTranscription(id) ==
  /\ dbOpen
  /\ IF id \in DOMAIN transcriptions
       THEN LET old == transcriptions[id]
            IN /\ transcriptions' = Drop(transcriptions, id)
               /\ transcriptions_fts' =
                    transcriptions_ad(transcriptions_fts, transcriptions', old)
               /\ note_tags' = {nt \in note_tags : nt.note_id # id}
       ELSE UNCHANGED <<transcriptions, transcriptions_fts, note_tags>>
  /\ last' = [op |-> "deleteTranscription", id |-> id, result |-> "void"]
  /\ UNCHANGED <<sqlite_sequence, tags, sqlite_master, schema_version,
               dictionary_entries, bak, dbOpen, issued>>
  /\ UNCHANGED ui

\* SQL NOT on an integer: 1 for 0, 0 for anything else.
SqlNot(v) == IF v = 0 THEN 1 ELSE 0

\* toggleFavorite(id): UPDATE ... SET is_favorite = NOT is_favorite WHERE id = ?.
toggleFavorite(id) ==
  /\ dbOpen
  /\ IF id \in DOMAIN transcriptions
       THEN LET old == transcriptions[id]
                new == [old EXCEPT !.is_favorite = SqlNot(@)]
            IN /\ transcriptions' = Put(transcriptions, id, new)
               /\ transcriptions_fts' =
                    transcriptions_au(transcriptions_fts, transcriptions', old, new)
       ELSE UNCHANGED <<transcriptions, transcriptions_fts>>
  /\ last' = [op |-> "toggleFavorite", id |-> id, result |-> "void"]
  /\ UNCHANGED <<sqlite_sequence, tags, note_tags, sqlite_master, schema_version,
               dictionary_entries, bak, dbOpen, issued>>
  /\ UNCHANGED ui

\* getStats(): counts computed from the tables on each call.
getStats ==
  [total |-> Cardinality(DOMAIN transcriptions),
   favorites |-> Cardinality({i \in DOMAIN transcriptions :
                                transcriptions[i].is_favorite = 1}),
   totalTags |-> Cardinality(tags)]

\* ------------------------------------------------------ backup and restore
\* backup() that writes the backup file only when there is none yet.
backup_KeepExisting(copyOk) == IF copyOk /\ ~bak.exists THEN FileImage ELSE bak

\* backup(): fs.copyFileSync(dbPath, dbPath + '.bak') inside try/catch; copyOk
\* is whether the copy succeeds.  The value is the backup file afterwards.
backup(copyOk) == IF copyOk THEN FileImage ELSE bak

\* The call db.backup().
Backup(copyOk) ==
  /\ bak' = backup(copyOk)
  /\ last' = [op |-> "backup", copyOk |-> copyOk, result |-> "void"]
  /\ UNCHANGED <<file, dbOpen, issued>>
  /\ UNCHANGED ui

\* close() that releases the connection without a backup.
Close_NoBackup(copyOk) ==
  /\ bak' = bak
  /\ dbOpen' = FALSE
  /\ last' = [op |-> "close", copyOk |-> copyOk, result |-> "void"]
  /\ UNCHANGED <<file, issued>>
  /\ UNCHANGED ui

\* close(): this.backup(), then this.db.close() (closing a closed connection
\* does nothing).
Close(copyOk) ==
  /\ bak' = backup(copyOk)
  /\ dbOpen' = FALSE
  /\ last' = [op |-> "close", copyOk |-> copyOk, result |-> "void"]
  /\ UNCHANGED <<file, issued>>
  /\ UNCHANGED ui

\* restore() that closes the connection before it looks for the backup file.
restore_CloseFirst(backupOk, copyOk) ==
  LET closedBak == backup(backupOk) IN
  /\ IF ~bak.exists
       THEN /\ last' = [op |-> "restore", backupOk |-> backupOk, copyOk |-> copyOk,
                        result |-> FALSE]
            /\ dbOpen' = FALSE
            /\ UNCHANGED <<file, bak, issued>>
       ELSE IF copyOk
         THEN /\ bak' = closedBak
              /\ transcriptions' = closedBak.transcriptions
              /\ transcriptions_fts' = closedBak.transcriptions_fts
              /\ sqlite_sequence' = closedBak.sqlite_sequence
              /\ tags' = closedBak.tags
              /\ note_tags' = closedBak.note_tags
              /\ sqlite_master' = closedBak.sqlite_master
              /\ schema_version' = closedBak.schema_version
              /\ dictionary_entries' = closedBak.dictionary_entries
              /\ dbOpen' = TRUE
              /\ last' = [op |-> "restore", backupOk |-> backupOk, copyOk |-> copyOk,
                          result |-> TRUE]
              /\ UNCHANGED issued
         ELSE /\ bak' = closedBak
              /\ dbOpen' = FALSE
              /\ last' = [op |-> "restore", backupOk |-> backupOk, copyOk |-> copyOk,
                          result |-> FALSE]
              /\ UNCHANGED <<file, issued>>
  /\ UNCHANGED ui

\* restore(): false when there is no backup file; otherwise this.close() (which
\* runs backup() first), then the backup file is copied over the live file and
\* the connection is opened again.  backupOk and copyOk are whether the copy in
\* backup() and the copy back succeed; a failed copy back is caught and leaves
\* the connection closed.
restore(backupOk, copyOk) ==
  LET closedBak == backup(backupOk) IN
  /\ IF ~bak.exists
       THEN /\ last' = [op |-> "restore", backupOk |-> backupOk, copyOk |-> copyOk,
                        result |-> FALSE]
            /\ UNCHANGED <<file, bak, dbOpen, issued>>
       ELSE IF copyOk
         THEN /\ bak' = closedBak
              /\ transcriptions' = closedBak.transcriptions
              /\ transcriptions_fts' = closedBak.transcriptions_fts
              /\ sqlite_sequence' = closedBak.sqlite_sequence
              /\ tags' = closedBak.tags
              /\ note_tags' = closedBak.note_tags
              /\ sqlite_master' = closedBak.sqlite_master
              /\ schema_version' = closedBak.schema_version
              /\ dictionary_entries' = closedBak.dictionary_entries
              /\ dbOpen' = TRUE
              /\ last' = [op |-> "restore", backupOk |-> backupOk, copyOk |-> copyOk,
                          result |-> TRUE]
              /\ UNCHANGED issued
         ELSE /\ bak' = closedBak
              /\ dbOpen' = FALSE
              /\ last' = [op |-> "restore", backupOk |-> backupOk, copyOk |-> copyOk,
                          result |-> FALSE]
              /\ UNCHANGED <<file, issued>>
  /\ UNCHANGED ui

\* new DatabaseService() while no connection is open: the file is opened
\* (created empty when absent) and migrate() runs; when it throws, so does the
\* constructor and there is no service to call.
Construct(failAt) ==
  /\ ~dbOpen
  /\ sqlite_master' =
       IF migrate(sqlite_master, schema_version, failAt).ok
         THEN EnsureDictionary(migrate(sqlite_master, schema_version, failAt).sqlite_master)
         ELSE migrate(sqlite_master, schema_version, failAt).sqlite_master
  /\ schema_version' = migrate(sqlite_master, schema_version, failAt).schema_version
  /\ dbOpen' = migrate(sqlite_master, schema_version, failAt).ok
  /\ last' = [op |-> "constructor", failAt |-> failAt,
              version |-> getSchemaVersion(sqlite_master, schema_version),
              result |-> IF migrate(sqlite_master, schema_version, failAt).ok
                           THEN "ok" ELSE "throws"]
  /\ UNCHANGED <<transcriptions, transcriptions_fts, sqlite_sequence, tags, note_tags,
                 dictionary_entries, bak, issued>>
  /\ UNCHANGED ui

\* ------------------------------------------------------------ parseQuery
\* Whether the characters of lit are at s[i], s[i+1], ...; ci compares case-folded
\* (the regular expression flag i).
LitAt(s, i, lit, ci) ==
  /\ i + Len(lit) - 1 <= Len(s)
  /\ \A k \in 1..Len(lit) :
       IF ci THEN LowerChar(s[i + k - 1]) = LowerChar(lit[k]) ELSE s[i + k - 1] = lit[k]

\* The index after the longest run of \w characters that starts at s[i].
RECURSIVE WordRunEnd(_, _)
WordRunEnd(s, i) ==
  IF i <= Len(s) /\ IsWordChar(s[i]) THEN WordRunEnd(s, i + 1) ELSE i

\* A regular expression matched at position i of s: the index after the match,
\* or 0 when it does not match there.
\*   "tag"  /(?:tag:|#)(\w+)/      "fav"  /fav:(true|false)/i
\*   "date" /date:(\w+)/i
MatchEnd(re, s, i) ==
  CASE re = "tag" ->
         IF LitAt(s, i, <<"t","a","g",":">>, FALSE) /\ WordRunEnd(s, i + 4) > i + 4
           THEN WordRunEnd(s, i + 4)
           ELSE IF LitAt(s, i, <<"#">>, FALSE) /\ WordRunEnd(s, i + 1) > i + 1
             THEN WordRunEnd(s, i + 1)
             ELSE 0
    [] re = "fav" ->
         IF ~LitAt(s, i, <<"f","a","v",":">>, TRUE) THEN 0
         ELSE IF LitAt(s, i + 4, <<"t","r","u","e">>, TRUE) THEN i + 8
         ELSE IF LitAt(s, i + 4, <<"f","a","l","s","e">>, TRUE) THEN i + 9
         ELSE 0
    [] re = "date" ->
         IF LitAt(s, i, <<"d","a","t","e",":">>, TRUE) /\ WordRunEnd(s, i + 5) > i + 5
           THEN WordRunEnd(s, i + 5)
           ELSE 0

\* The first match of re in s at or after position i: <<start, end>> (end is
\* the index after the match), or <<>>.
RECURSIVE MatchFrom(_, _, _)
MatchFrom(re, s, i) ==
  IF i > Len(s) THEN <<>>
  ELSE IF MatchEnd(re, s, i) # 0 THEN <<i, MatchEnd(re, s, i)>>
  ELSE MatchFrom(re, s, i + 1)

\* String.prototype.match without the g flag: the first match.
FirstMatch(re, s) == MatchFrom(re, s, 1)

\* String.prototype.match with the g flag: the matches from left to right, each
\* search starting where the previous match ended.
RECURSIVE AllMatchesFrom(_, _, _)
AllMatchesFrom(re, s, i) ==
  LET m == MatchFrom(re, s, i) IN
  IF m = <<>> THEN <<>> ELSE <<m>> \o AllMatchesFrom(re, s, m[2])

AllMatches(re, s) == AllMatchesFrom(re, s, 1)

\* The characters s[from], ..., s[to - 1].
Slice(s, from, to) == [k \in 1..(to - from) |-> s[from + k - 1]]

\* String.prototype.replace(re, '') without the g flag: the first match removed.
RemoveFirst(re, s) ==
  LET m == FirstMatch(re, s) IN
  IF m = <<>> THEN s ELSE Slice(s, 1, m[1]) \o Slice(s, m[2], Len(s) + 1)

\* String.prototype.replace(re, '') with the g flag: every match removed.
RECURSIVE RemoveAllFrom(_, _, _)
RemoveAllFrom(re, s, i) ==
  LET m == MatchFrom(re, s, i) IN
  IF m = <<>> THEN Slice(s, i, Len(s) + 1)
  ELSE Slice(s, i, m[1]) \o RemoveAllFrom(re, s, m[2])

RemoveAll(re, s) == RemoveAllFrom(re, s, 1)

\* String.prototype.trim (the only white space here is the blank).
RECURSIVE TrimStart(_)
TrimStart(s) == IF s # <<>> /\ s[1] = " " THEN TrimStart(Tail(s)) ELSE s

RECURSIVE TrimEnd(_)
TrimEnd(s) ==
  IF s # <<>> /\ s[Len(s)] = " " THEN TrimEnd(SubSeq(s, 1, Len(s) - 1)) ELSE s

Trim(s) == TrimEnd(TrimStart(s))

\* The local start of the current day, week (from Sunday) and month, as
\* parseQuery computes them from new Date().
StartOfToday == 3
StartOfWeek == 2
StartOfMonth == 1

\* The prefix tag: or # taken off a tag match (match.replace(/^(?:tag:|#)/, '')).
StripTagPrefix(m) == IF m[1] = "#" THEN Tail(m) ELSE Slice(m, 5, Len(m) + 1)

NoFilters == [tags |-> Undefined, isFavorite |-> Undefined,
              startDate |-> Undefined, endDate |-> Undefined,
              limit |-> Undefined, offset |-> Undefined]

\* parseQuery(rawQuery): the search text and the filters of a query string.
\* Every pattern is matched against rawQuery; the removal is made in searchText
\* as it stands by then.
parseQuery(rawQuery) ==
  LET tagMatches == AllMatches("tag", rawQuery)
      favMatch == FirstMatch("fav", rawQuery)
      dateMatch == FirstMatch("date", rawQuery)
      text1 == IF tagMatches # <<>> THEN Trim(RemoveAll("tag", rawQuery)) ELSE rawQuery
      text2 == IF favMatch # <<>> THEN Trim(RemoveFirst("fav", text1)) ELSE text1
      text3 == IF dateMatch # <<>> THEN Trim(RemoveFirst("date", text2)) ELSE text2
      dateFilter == IF dateMatch # <<>>
                      THEN ToLowerCase(Slice(rawQuery, dateMatch[1] + 5, dateMatch[2]))
                      ELSE <<>>
  IN
  [searchText |-> text3,
   filters |->
     [NoFilters EXCEPT
        !.tags = IF tagMatches # <<>>
                   THEN Some([k \in 1..Len(tagMatches) |->
                          ToLowerCase(StripTagPrefix(
                            Slice(rawQuery, tagMatches[k][1], tagMatches[k][2])))])
                   ELSE Undefined,
        !.isFavorite = IF favMatch # <<>>
                         THEN Some(ToLowerCase(Slice(rawQuery, favMatch[1] + 4, favMatch[2]))
                                     = <<"t","r","u","e">>)
                         ELSE Undefined,
        !.startDate = CASE dateFilter = <<"t","o","d","a","y">> -> Some(StartOfToday)
                        [] dateFilter = <<"w","e","e","k">> -> Some(StartOfWeek)
                        [] dateFilter = <<"m","o","n","t","h">> -> Some(StartOfMonth)
                        [] OTHER -> Undefined]]

\* Query strings handed to search.
Q_empty == <<>>
Q_blank == <<" ">>
Q_a == <<"a">>
Q_c == <<"c">>
Q_ab == <<"a", " ", "b">>
Q_x == <<"x">>
Q_favTrue == <<"f","a","v",":","t","r","u","e">>
Q_a_favTrue == <<"a", " ", "f","a","v",":","t","r","u","e">>
Q_FavFalse_b == <<"F","A","V",":","F","a","l","s","e", " ", "b">>
Q_a_tag == <<"a", " ", "t","a","g",":","W">>
Q_week_a == <<"d","a","t","e",":","w","e","e","k", " ", "a">>
Q_favfav == <<"f","a","v",":","t","r","u","e", " ", "f","a","v",":","f","a","l","s","e">>

Queries == {Q_empty, Q_blank, Q_a, Q_c, Q_ab, Q_x, Q_favTrue, Q_a_favTrue,
            Q_FavFalse_b, Q_a_tag, Q_week_a, Q_favfav}

\* parseQuery is a pure function of the query string: its values on the query
\* strings of the runs, computed once.
ParsedQuery == [q \in Queries |-> parseQuery(q)]

\* ------------------------------------------------------- listing and search
\* The ids of rows, in ORDER BY timestamp DESC; rows of equal timestamp come in
\* ascending id (rowid) order, as SQLite's scan and its stable sort leave them.
RECURSIVE OrderByTimestampDesc(_)
OrderByTimestampDesc(ids) ==
  IF ids = {} THEN <<>>
  ELSE LET first == CHOOSE i \in ids : \A j \in ids :
                      \/ transcriptions[i].timestamp > transcriptions[j].timestamp
                      \/ /\ transcriptions[i].timestamp = transcriptions[j].timestamp
                         /\ i <= j
       IN <<first>> \o OrderByTimestampDesc(ids \ {first})

\* The WHERE conditions getTranscriptions and searchTranscriptions both append:
\* each is appended only when its filter value is truthy (isFavorite: defined).
WhereFilters(row, filters) ==
  /\ IsDefined(filters.isFavorite) =>
       row.is_favorite = (IF filters.isFavorite[1] THEN 1 ELSE 0)
  /\ Truthy(filters.startDate) => row.timestamp >= filters.startDate[1]
  /\ Truthy(filters.endDate) => row.timestamp <= filters.endDate[1]
  /\ (IsDefined(filters.tags) /\ Len(filters.tags[1]) > 0) =>
       \E nt \in note_tags :
         /\ nt.note_id = row.id
         /\ \E t \in tags : t.id = nt.tag_id /\ t.name \in Range(filters.tags[1])

\* LIMIT ? and OFFSET ? as the two functions append them: each only when its
\* value is truthy.  OFFSET without LIMIT is not SQL that SQLite accepts, so
\* preparing the statement throws.
Paginate(seq, filters) ==
  LET off == IF Truthy(filters.offset) THEN filters.offset[1] ELSE 0
      n == Len(seq)
      from == IF off < n THEN off + 1 ELSE n + 1
      to == IF Truthy(filters.limit)
              THEN (IF off + filters.limit[1] < n THEN off + filters.limit[1] ELSE n)
              ELSE n
  IN
  IF Truthy(filters.offset) /\ ~Truthy(filters.limit)
    THEN [ok |-> FALSE]
    ELSE [ok |-> TRUE, rows |-> SubSeq(seq, from, to)]

\* The rows of a sequence of ids.
Rows(idseq) == [k \in 1..Len(idseq) |-> transcriptions[idseq[k]]]

\* getTranscriptions(filters).
getTranscriptions(filters) ==
  Paginate(Rows(OrderByTimestampDesc(
             {i \in DOMAIN transcriptions : WhereFilters(transcriptions[i], filters)})),
           filters)

\* Whether FTS5 accepts searchQuery as a MATCH expression.  The queries here
\* have letters, digits, blanks, ':' and '#': a run of letters and digits is a
\* bareword, a ':' names a column the index does not have, a '#' is a syntax
\* error.
Fts5QueryOk(searchQuery) ==
  \A k \in 1..Len(searchQuery) : IsTokenChar(searchQuery[k]) \/ searchQuery[k] = " "

\* The ids searchTranscriptions selects for a non-blank searchQuery: the rowids
\* the index matches, joined to the table (t.id = fts.rowid), under the filters.
SearchCandidates(searchQuery, filters) ==
  {i \in Fts5Match(transcriptions_fts, Tokens(searchQuery)) \cap DOMAIN transcriptions :
     WhereFilters(transcriptions[i], filters)}

\* searchTranscriptions(searchQuery, filters); rankOrder is the order ORDER BY
\* rank, t.timestamp DESC gives the selected rows (rank is the bm25 score, not
\* computed here: any order of the candidates is taken to be possible).
searchTranscriptions(searchQuery, filters, rankOrder) ==
  IF searchQuery = <<>> \/ Trim(searchQuery) = <<>>
    THEN getTranscriptions(filters)
    ELSE IF ~Fts5QueryOk(searchQuery)
      THEN [ok |-> FALSE]
      ELSE Paginate(Rows(rankOrder), filters)

\* The sequences that list each element of S once.
Orders(S) ==
  {p \in [1..Cardinality(S) -> S] : \A a, b \in 1..Cardinality(S) : p[a] = p[b] => a = b}

\* The orders the rows of a text search can come in (none to choose when the
\* search is not handed to the index).
RankOrders(searchText, filters) ==
  IF Trim(searchText) # <<>> /\ Fts5QueryOk(searchText)
    THEN Orders(SearchCandidates(searchText, filters))
    ELSE {<<>>}

\* combinedFilters of search() with the spread the other way round: the parsed
\* filters over the user filters.
CombinedFilters_ParsedWins(parsedFilters, userFilters, limit, offset) ==
  LET u == IF IsDefined(userFilters) THEN userFilters[1]
           ELSE [startDate |-> Undefined, endDate |-> Undefined,
                 isFavorite |-> Undefined, tags |-> Undefined]
  IN
  [parsedFilters EXCEPT
     !.limit = Some(limit),
     !.offset = Some(offset),
     !.startDate = IF IsDefined(@) THEN @ ELSE u.startDate,
     !.endDate = IF IsDefined(@) THEN @ ELSE u.endDate,
     !.isFavorite = IF IsDefined(@) THEN @ ELSE u.isFavorite,
     !.tags = IF IsDefined(u.tags)
                THEN Some((IF IsDefined(@) THEN @[1] ELSE <<>>) \o u.tags[1])
                ELSE @]

\* combinedFilters of search(): the parsed filters with limit and offset, then
\* the user filters over them.
CombinedFilters(parsedFilters, userFilters, limit, offset) ==
  LET base == [parsedFilters EXCEPT !.limit = Some(limit), !.offset = Some(offset)]
  IN
  IF ~IsDefined(userFilters) THEN base
  ELSE LET u == userFilters[1] IN
    [base EXCEPT
       !.startDate = IF IsDefined(u.startDate) THEN u.startDate ELSE @,
       !.endDate = IF IsDefined(u.endDate) THEN u.endDate ELSE @,
       !.isFavorite = IF IsDefined(u.isFavorite) THEN u.isFavorite ELSE @,
       !.tags = IF IsDefined(u.tags)
                  THEN Some((IF IsDefined(@) THEN @[1] ELSE <<>>) \o u.tags[1])
                  ELSE @]

\* The listing search() asks for: the index search when the search text is not
\* blank, the plain listing otherwise, both under the merged filters.
Dispatch_NoFilters(searchText, combinedFilters, rankOrder) ==
  IF Trim(searchText) # <<>>
    THEN searchTranscriptions(searchText, combinedFilters, rankOrder)
    ELSE getTranscriptions([NoFilters EXCEPT !.limit = combinedFilters.limit,
                                             !.offset = combinedFilters.offset])

Dispatch(searchText, combinedFilters, rankOrder) ==
  IF Trim(searchText) # <<>>
    THEN searchTranscriptions(searchText, combinedFilters, rankOrder)
    ELSE getTranscriptions(combinedFilters)

\* total of search() taken from the wrong count.
SearchTotal_Favorites == getStats.favorites

\* hasMore of search() with the comparison off by one.
HasMore_OrEqual(offset, returned, total) == offset + returned <= total

\* hasMore of search() without the offset.
HasMore_NoOffset(offset, returned, total) == returned < total

\* hasMore of search().
HasMore(offset, returned, total) == offset + returned < total

\* total of search().
SearchTotal == getStats.total

\* limit and offset of search(options), with their defaults.
LimitOf(options) == IF IsDefined(options.limit) THEN options.limit[1] ELSE 50
OffsetOf(options) == IF IsDefined(options.offset) THEN options.offset[1] ELSE 0

\* search(options) from the parse of options.query on: the merge, the listing
\* and the result.  The value has the parse and the merged filters beside the
\* SearchResult.
SearchParsed(options, parsed, rankOrder) ==
  LET combinedFilters ==
        CombinedFilters(parsed.filters, options.filters, LimitOf(options), OffsetOf(options))
      found == Dispatch(parsed.searchText, combinedFilters, rankOrder)
  IN
  IF found.ok
    THEN [ok |-> TRUE,
          searchText |-> parsed.searchText,
          parsedFilters |-> parsed.filters,
          combinedFilters |-> combinedFilters,
          offset |-> OffsetOf(options),
          transcriptions |-> found.rows,
          total |-> SearchTotal,
          hasMore |-> HasMore(OffsetOf(options), Len(found.rows), SearchTotal)]
    ELSE [ok |-> FALSE,
          searchText |-> parsed.searchText,
          parsedFilters |-> parsed.filters,
          combinedFilters |-> combinedFilters,
          offset |-> OffsetOf(options)]

\* search(options): options has query and the optional filters, limit (default
\* 50) and offset (default 0).
search(options, rankOrder) == SearchParsed(options, ParsedQuery[options.query], rankOrder)

\* The orders the rows of search(options) can come in from the index.
SearchRankOrders(options, parsed) ==
  RankOrders(parsed.searchText,
             CombinedFilters(parsed.filters, options.filters,
                             LimitOf(options), OffsetOf(options)))

\* The call db.getTranscriptions(filters).
GetTranscriptions(filters) ==
  /\ dbOpen
  /\ last' = [op |-> "getTranscriptions", filters |-> filters,
              result |-> getTranscriptions(filters)]
  /\ UNCHANGED <<file, bak, dbOpen, issued>>
  /\ UNCHANGED ui

\* The call searchService.search(options).
Search(options) ==
  /\ dbOpen
  /\ \E rankOrder \in SearchRankOrders(options, ParsedQuery[options.query]) :
       last' = [op |-> "search", options |-> options,
                result |-> search(options, rankOrder)]
  /\ UNCHANGED <<file, bak, dbOpen, issued>>
  /\ UNCHANGED ui

\* ------------------------------------------------------------------ export
\* The columns of transcriptions in the order of CREATE TABLE, which is the
\* order of the keys of a row object, and those of them that hold text.
Columns == <<"id", "raw_text", "formatted_text", "timestamp", "formatting_profile",
             "is_favorite", "created_at">>
TextColumns == {"raw_text", "formatted_text", "formatting_profile"}

\* The ids of rows, in ORDER BY timestamp ASC; rows of equal timestamp come in
\* ascending id (rowid) order.
RECURSIVE OrderByTimestampAsc(_)
OrderByTimestampAsc(ids) ==
  IF ids = {} THEN <<>>
  ELSE LET first == CHOOSE i \in ids : \A j \in ids :
                      \/ transcriptions[i].timestamp < transcriptions[j].timestamp
                      \/ /\ transcriptions[i].timestamp = transcriptions[j].timestamp
                         /\ i <= j
       IN <<first>> \o OrderByTimestampAsc(ids \ {first})

\* A string written into JSON text without escaping anything.
JsonEscape_Raw(s) == s

\* The characters JSON.stringify writes for the characters of a string: the
\* quote, the backslash and the line feed are escaped with a backslash.
RECURSIVE JsonEscape(_)
JsonEscape(s) ==
  IF s = <<>> THEN <<>>
  ELSE (CASE s[1] = "\"" -> <<"\\", "\"">>
          [] s[1] = "\\" -> <<"\\", "\\">>
          [] s[1] = "\n" -> <<"\\", "n">>
          [] OTHER -> <<s[1]>>) \o JsonEscape(Tail(s))

\* The lexical tokens of JSON text: punctuation, the string literals of values
\* (the characters between and including the quotes), the string literals of
\* keys (column names, which hold nothing to escape) and numbers.
\* JSON.stringify(value, null, 2) puts line breaks and spaces between the
\* tokens, which carry no meaning.
JsonPunct(c) == [tok |-> "punct", punct |-> c]
JsonKey(name) == [tok |-> "key", key |-> name]
JsonStringLit(s) == [tok |-> "string", chars |-> <<"\"">> \o JsonEscape(s) \o <<"\"">>]
JsonNumber(n) == [tok |-> "number", number |-> n]

\* The tokens of "key": value for the columns from the k-th on, with commas.
RECURSIVE JsonMembers(_, _)
JsonMembers(row, k) ==
  IF k > Len(Columns) THEN <<>>
  ELSE <<JsonKey(Columns[k]), JsonPunct(":"),
         IF Columns[k] \in TextColumns
           THEN JsonStringLit(row[Columns[k]]) ELSE JsonNumber(row[Columns[k]])>>
       \o (IF k < Len(Columns) THEN <<JsonPunct(",")>> ELSE <<>>)
       \o JsonMembers(row, k + 1)

\* The tokens of the elements of an array of rows from the k-th on.
RECURSIVE JsonElements(_, _)
JsonElements(rows, k) ==
  IF k > Len(rows) THEN <<>>
  ELSE <<JsonPunct("{")>> \o JsonMembers(rows[k], 1) \o <<JsonPunct("}")>>
       \o (IF k < Len(rows) THEN <<JsonPunct(",")>> ELSE <<>>)
       \o JsonElements(rows, k + 1)

\* JSON.stringify(rows, null, 2) of an array of row objects.
JsonStringify(rows) == <<JsonPunct("[")>> \o JsonElements(rows, 1) \o <<JsonPunct("]")>>

\* new Date(t).toLocaleString(): a text that depends on the locale and the
\* time zone of the process; kept as the time it is made of.
ToLocaleString(t) == [localeString |-> t]

\* exportTranscriptions(ids, format): the rows whose id is in ids, in ascending
\* timestamp, as JSON tokens, or as the blocks of the markdown and the text
\* document (date, text); any other format throws after the SELECT.
exportTranscriptions(ids, format) ==
  LET rows == Rows(OrderByTimestampAsc(Range(ids) \cap DOMAIN transcriptions)) IN
  CASE format = "json" -> [ok |-> TRUE, value |-> JsonStringify(rows)]
    [] format \in {"markdown", "txt"} ->
         [ok |-> TRUE,
          value |-> [k \in 1..Len(rows) |->
                       [date |-> ToLocaleString(rows[k].timestamp),
                        text |-> rows[k].formatted_text]]]
    [] OTHER -> [ok |-> FALSE, error |-> "Unsupported export format"]

\* The call db.exportTranscriptions(ids, format).
ExportTranscriptions(ids, format) ==
  /\ dbOpen
  /\ last' = [op |-> "exportTranscriptions", ids |-> ids, format |-> format,
              result |-> exportTranscriptions(ids, format)]
  /\ UNCHANGED <<file, bak, dbOpen, issued>>
  /\ UNCHANGED ui

\* -------------------------------------------------------------- dictionary
\* The id INSERT gives a new dictionary entry: one more than the largest rowid.
NextEntryId ==
  IF DOMAIN dictionary_entries = {} THEN 1
  ELSE 1 + CHOOSE i \in DOMAIN dictionary_entries : \A j \in DOMAIN dictionary_entries : i >= j

\* The UNIQUE constraint on spoken_phrase: whether a row other than exceptId
\* holds the phrase.
SpokenPhraseTaken(phrase, exceptId) ==
  \E i \in DOMAIN dictionary_entries \ {exceptId} :
    dictionary_entries[i].spoken_phrase = phrase

\* addEntry(data) behind ipcMain.handle('dict:add-entry'): the INSERT with
\* is_enabled 1; its UNIQUE constraint error is caught by the handler and
\* returned as { success: false, error }.
DictAddEntry(data, now) ==
  /\ dbOpen
  /\ IF SpokenPhraseTaken(data.spoken_phrase, 0)
       THEN /\ last' = [op |-> "dict:add-entry", data |-> data,
                        result |-> [threw |-> FALSE, success |-> FALSE,
                                    error |-> "An entry with this phrase already exists"]]
            /\ UNCHANGED dictionary_entries
       ELSE /\ NextEntryId <= MaxEntryId
            /\ dictionary_entries' =
                 Put(dictionary_entries, NextEntryId,
                     [id |-> NextEntryId,
                      spoken_phrase |-> data.spoken_phrase,
                      replacement |-> data.replacement,
                      is_case_sensitive |->
                        IF data.is_case_sensitive = Some(TRUE) THEN 1 ELSE 0,
                      is_enabled |-> 1,
                      created_at |-> now,
                      updated_at |-> now])
            /\ last' = [op |-> "dict:add-entry", data |-> data,
                        result |-> [threw |-> FALSE, success |-> TRUE, id |-> NextEntryId]]
  /\ UNCHANGED <<transcriptions, transcriptions_fts, sqlite_sequence, tags, note_tags,
                 sqlite_master, schema_version, bak, dbOpen, issued>>
  /\ UNCHANGED ui

\* The row after UPDATE dictionary_entries SET <the provided fields>, updated_at.
UpdatedEntry(row, updates, now) ==
  [row EXCEPT
     !.spoken_phrase = IF IsDefined(updates.spoken_phrase)
                         THEN updates.spoken_phrase[1] ELSE @,
     !.replacement = IF IsDefined(updates.replacement) THEN updates.replacement[1] ELSE @,
     !.is_case_sensitive = IF IsDefined(updates.is_case_sensitive)
                             THEN (IF updates.is_case_sensitive[1] THEN 1 ELSE 0) ELSE @,
     !.is_enabled = IF IsDefined(updates.is_enabled)
                      THEN (IF updates.is_enabled[1] THEN 1 ELSE 0) ELSE @,
     !.updated_at = now]

\* updateEntry(id, updates) behind ipcMain.handle('dict:update-entry'): nothing
\* without a provided field; otherwise the UPDATE, whose errors the handler
\* logs and throws again.
DictUpdateEntry(id, updates, now) ==
  /\ dbOpen
  /\ IF /\ id \in DOMAIN dictionary_entries
        /\ \E f \in DOMAIN updates : IsDefined(updates[f])
       THEN IF /\ IsDefined(updates.spoken_phrase)
               /\ SpokenPhraseTaken(updates.spoken_phrase[1], id)
              THEN /\ last' = [op |-> "dict:update-entry", id |-> id, updates |-> updates,
                               result |-> [threw |-> TRUE,
                                           error |-> "UNIQUE constraint failed"]]
                   /\ UNCHANGED dictionary_entries
              ELSE /\ dictionary_entries' =
                        [dictionary_entries EXCEPT
                           ![id] = UpdatedEntry(dictionary_entries[id], updates, now)]
                   /\ last' = [op |-> "dict:update-entry", id |-> id, updates |-> updates,
                               result |-> [threw |-> FALSE, success |-> TRUE]]
       ELSE /\ last' = [op |-> "dict:update-entry", id |-> id, updates |-> updates,
                        result |-> [threw |-> FALSE, success |-> TRUE]]
            /\ UNCHANGED dictionary_entries
  /\ UNCHANGED <<transcriptions, transcriptions_fts, sqlite_sequence, tags, note_tags,
                 sqlite_master, schema_version, bak, dbOpen, issued>>
  /\ UNCHANGED ui

\* deleteEntry(id) behind ipcMain.handle('dict:delete-entry').
DictDeleteEntry(id) ==
  /\ dbOpen
  /\ dictionary_entries' = Drop(dictionary_entries, id)
  /\ last' = [op |-> "dict:delete-entry", id |-> id,
              result |-> [threw |-> FALSE, success |-> TRUE]]
  /\ UNCHANGED <<transcriptions, transcriptions_fts, sqlite_sequence, tags, note_tags,
                 sqlite_master, schema_version, bak, dbOpen, issued>>
  /\ UNCHANGED ui

\* toggleEnabled(id) behind ipcMain.handle('dict:toggle-enabled'):
\* SET is_enabled = NOT is_enabled, updated_at = ?.
DictToggleEnabled(id, now) ==
  /\ dbOpen
  /\ dictionary_entries' =
       IF id \in DOMAIN dictionary_entries
         THEN [dictionary_entries EXCEPT
                 ![id] = [@ EXCEPT !.is_enabled = SqlNot(@), !.updated_at = now]]
         ELSE dictionary_entries
  /\ last' = [op |-> "dict:toggle-enabled", id |-> id,
              result |-> [threw |-> FALSE, success |-> TRUE]]
  /\ UNCHANGED <<transcriptions, transcriptions_fts, sqlite_sequence, tags, note_tags,
                 sqlite_master, schema_version, bak, dbOpen, issued>>
  /\ UNCHANGED ui

\* The ids of rows of dictionary_entries, in ORDER BY LENGTH(spoken_phrase) DESC;
\* rows of equal length come in ascending id (rowid) order.
RECURSIVE OrderByLengthDesc(_)
OrderByLengthDesc(ids) ==
  IF ids = {} THEN <<>>
  ELSE LET first == CHOOSE i \in ids : \A j \in ids :
                      \/ Len(dictionary_entries[i].spoken_phrase)
                           > Len(dictionary_entries[j].spoken_phrase)
                      \/ /\ Len(dictionary_entries[i].spoken_phrase)
                              = Len(dictionary_entries[j].spoken_phrase)
                         /\ i <= j
       IN <<first>> \o OrderByLengthDesc(ids \ {first})

\* getEnabledEntries(): the rows with is_enabled = 1, longest phrase first.
getEnabledEntries ==
  LET ids == OrderByLengthDesc({i \in DOMAIN dictionary_entries :
                                  dictionary_entries[i].is_enabled = 1})
  IN [k \in 1..Len(ids) |-> dictionary_entries[ids[k]]]

\* The replacement text String.prototype.replace puts for one match of a regular
\* expression without groups: $$ stands for $, $& for the matched text, every
\* other character for itself.
RECURSIVE ExpandReplacement(_, _)
ExpandReplacement(replacement, matched) ==
  IF replacement = <<>> THEN <<>>
  ELSE IF Len(replacement) >= 2 /\ replacement[1] = "$" /\ replacement[2] = "$"
    THEN <<"$">> \o ExpandReplacement(Tail(Tail(replacement)), matched)
    ELSE IF Len(replacement) >= 2 /\ replacement[1] = "$" /\ replacement[2] = "&"
      THEN matched \o ExpandReplacement(Tail(Tail(replacement)), matched)
      ELSE <<replacement[1]>> \o ExpandReplacement(Tail(replacement), matched)

\* result.replace(new RegExp(escapeRegex(phrase), 'gi'), replacement) from s[i]
\* on, for a phrase that is not empty: the matches are found from left to
\* right in the text as it was, each search starting after the match before.
RECURSIVE RegexReplaceFrom(_, _, _, _)
RegexReplaceFrom(s, i, phrase, replacement) ==
  IF i > Len(s) THEN <<>>
  ELSE IF LitAt(s, i, phrase, TRUE)
    THEN ExpandReplacement(replacement, Slice(s, i, i + Len(phrase)))
           \o RegexReplaceFrom(s, i + Len(phrase), phrase, replacement)
    ELSE <<s[i]>> \o RegexReplaceFrom(s, i + 1, phrase, replacement)

\* result.split(phrase).join(replacement) from s[i] on, for a phrase that is
\* not empty.
RECURSIVE SplitJoinFrom(_, _, _, _)
SplitJoinFrom(s, i, phrase, replacement) ==
  IF i > Len(s) THEN <<>>
  ELSE IF LitAt(s, i, phrase, FALSE)
    THEN replacement \o SplitJoinFrom(s, i + Len(phrase), phrase, replacement)
    ELSE <<s[i]>> \o SplitJoinFrom(s, i + 1, phrase, replacement)

\* s with sep before, between and after its characters (the empty regular
\* expression matches at every position), or between them only (split('')).
RECURSIVE Interleave(_, _, _)
Interleave(s, sep, around) ==
  IF s = <<>> THEN (IF around THEN sep ELSE <<>>)
  ELSE IF Len(s) = 1 THEN (IF around THEN sep \o s \o sep ELSE s)
  ELSE (IF around THEN sep ELSE <<>>) \o <<s[1]>>
       \o (IF around THEN <<>> ELSE sep) \o Interleave(Tail(s), sep, around)

\* One pass of the loop of applyReplacements: the entry applied to result.
ApplyEntry(result, entry) ==
  IF entry.is_case_sensitive # 0
    THEN IF entry.spoken_phrase = <<>>
           THEN Interleave(result, entry.replacement, FALSE)
           ELSE SplitJoinFrom(result, 1, entry.spoken_phrase, entry.replacement)
    ELSE IF entry.spoken_phrase = <<>>
           THEN Interleave(result, ExpandReplacement(entry.replacement, <<>>), TRUE)
           ELSE RegexReplaceFrom(result, 1, entry.spoken_phrase, entry.replacement)

\* The loop of applyReplacements over the entries from the k-th on.
RECURSIVE ApplyEntriesFrom(_, _, _)
ApplyEntriesFrom(result, entries, k) ==
  IF k > Len(entries) THEN result
  ELSE ApplyEntriesFrom(ApplyEntry(result, entries[k]), entries, k + 1)

\* applyReplacements(text).
applyReplacements(text) == ApplyEntriesFrom(text, getEnabledEntries, 1)

\* applyReplacements(text) behind ipcMain.handle('dict:apply-replacements').
DictApplyReplacements(text) ==
  /\ dbOpen
  /\ last' = [op |-> "dict:apply-replacements", text |-> text,
              result |-> [threw |-> FALSE, success |-> TRUE,
                          result |-> applyReplacements(text)]]
  /\ UNCHANGED <<file, bak, dbOpen, issued>>
  /\ UNCHANGED ui

\* --------------------------------------------------------- global shortcuts
\* The shortcut handlers of the main process. A shortcut string is held as its
\* parts between '+', trimmed ('' is <<>>); a key code of uiohook-napi is held
\* as its name in UiohookKey. A parse result or a key that is null is <<>>,
\* and <<v>> otherwise. The main window is open, so every message is sent.

\* The toggle shortcut where process.platform is not 'darwin'.
toggleShortcut == <<"Ctrl", "Shift", "Space">>

\* The names F1..F24, the parts that /^F(\d+)$/ matches and UiohookKey defines.
FunctionKeys ==
  {"F1", "F2", "F3", "F4", "F5", "F6", "F7", "F8", "F9", "F10", "F11", "F12",
   "F13", "F14", "F15", "F16", "F17", "F18", "F19", "F20", "F21", "F22", "F23", "F24"}

\* part.toUpperCase(), for the parts of the shortcuts of ShortcutArgs.
ToUpperCase(part) ==
  CASE part = "Ctrl" -> "CTRL"
    [] part = "Shift" -> "SHIFT"
    [] part = "Space" -> "SPACE"
    [] part = "f9" -> "F9"
    [] part = "Fn" -> "FN"
    [] OTHER -> part

\* One round of the loop of parseShortcutToKeyCodes: the switch on upperPart.
\* (The special keys other than SPACE, the digits and the letters set key in
\* the same way and are left out.)
ParsePart(parsed, part) ==
  CASE ToUpperCase(part) \in {"COMMAND", "CMD"} -> [parsed EXCEPT !.requiresMeta = TRUE]
    [] ToUpperCase(part) \in {"CTRL", "CONTROL"} -> [parsed EXCEPT !.requiresCtrl = TRUE]
    [] ToUpperCase(part) = "ALT" -> [parsed EXCEPT !.requiresAlt = TRUE]
    [] ToUpperCase(part) = "SHIFT" -> [parsed EXCEPT !.requiresShift = TRUE]
    [] ToUpperCase(part) = "SPACE" -> [parsed EXCEPT !.key = Some("Space")]
    [] ToUpperCase(part) \in FunctionKeys -> [parsed EXCEPT !.key = Some(ToUpperCase(part))]
    [] OTHER -> parsed

RECURSIVE ParsePartsFrom(_, _, _)
ParsePartsFrom(parts, i, parsed) ==
  IF i > Len(parts) THEN parsed
  ELSE ParsePartsFrom(parts, i + 1, ParsePart(parsed, parts[i]))

\* parseShortcutToKeyCodes(shortcut).
parseShortcutToKeyCodes(shortcut) ==
  ParsePartsFrom(shortcut, 1,
    [requiresMeta |-> FALSE, requiresCtrl |-> FALSE, requiresAlt |-> FALSE,
     requiresShift |-> FALSE, key |-> Undefined])

\* checkModifiers(shortcutKeys), with the keys that are down.
checkModifiers(shortcutKeys, pressed) ==
  /\ shortcutKeys.requiresMeta = ({"Meta", "MetaRight"} \cap pressed # {})
  /\ shortcutKeys.requiresCtrl = ({"Ctrl", "CtrlRight"} \cap pressed # {})
  /\ shortcutKeys.requiresAlt = ({"Alt", "AltRight"} \cap pressed # {})
  /\ shortcutKeys.requiresShift = ({"Shift", "ShiftRight"} \cap pressed # {})

\* toggleKeys and holdKeys of refreshShortcuts: null for the shortcut ''.
ShortcutKeys(shortcut) ==
  IF shortcut = <<>> THEN Undefined ELSE Some(parseShortcutToKeyCodes(shortcut))

\* The test the handlers make first: keys && keys.key !== null &&
\* e.keycode === keys.key.
KeyMatches(keys, keycode) ==
  /\ IsDefined(keys)
  /\ IsDefined(keys[1].key)
  /\ keycode = keys[1].key[1]

\* A keydown of the key of a shortcut fires it whatever was fired before.
ShortcutFires_Again(isPressed, keys, pressed) ==
  checkModifiers(keys[1], pressed)

\* The test of the keydown handler on a key that matches: the shortcut has not
\* fired since its key was last released, and the modifiers are as required.
ShortcutFires(isPressed, keys, pressed) ==
  ~isPressed /\ checkModifiers(keys[1], pressed)

\* The messages a handler sends to the main window, in order.
Sent(toggle, holdMessage) ==
  (IF toggle THEN <<"toggle-recording">> ELSE <<>>) \o holdMessage

\* The keydown listener of refreshShortcuts, on an event with this key code
\* (the first of a press or an auto-repeat).
KeyDownWith(keycode, toggleFires, holdFires) ==
  /\ pressedKeys' = pressedKeys \cup {keycode}
  /\ isTogglePressed' = (isTogglePressed \/ toggleFires)
  /\ isHoldPressed' = (isHoldPressed \/ holdFires)
  /\ lastHoldMessage' = IF holdFires THEN "start-recording" ELSE lastHoldMessage
  /\ last' = [op |-> "keydown", keycode |-> keycode,
              sent |-> Sent(toggleFires,
                            IF holdFires THEN <<"start-recording">> ELSE <<>>)]
  /\ UNCHANGED <<holdShortcut, file, bak, dbOpen, issued, rec>>

KeyDown(keycode) ==
  KeyDownWith(keycode,
    /\ KeyMatches(ShortcutKeys(toggleShortcut), keycode)
    /\ ShortcutFires(isTogglePressed, ShortcutKeys(toggleShortcut),
                     pressedKeys \cup {keycode}),
    /\ KeyMatches(ShortcutKeys(holdShortcut), keycode)
    /\ ShortcutFires(isHoldPressed, ShortcutKeys(holdShortcut),
                     pressedKeys \cup {keycode}))

\* The keyup listener of refreshShortcuts, on an event with this key code.
KeyUpWith(keycode, toggleUp, holdStops) ==
  /\ pressedKeys' = pressedKeys \ {keycode}
  /\ isTogglePressed' = (isTogglePressed /\ ~toggleUp)
  /\ isHoldPressed' = (isHoldPressed /\ ~holdStops)
  /\ lastHoldMessage' = IF holdStops THEN "stop-recording" ELSE lastHoldMessage
  /\ last' = [op |-> "keyup", keycode |-> keycode,
              sent |-> IF holdStops THEN <<"stop-recording">> ELSE <<>>]
  /\ UNCHANGED <<holdShortcut, file, bak, dbOpen, issued, rec>>

KeyUp(keycode) ==
  KeyUpWith(keycode,
    KeyMatches(ShortcutKeys(toggleShortcut), keycode),
    KeyMatches(ShortcutKeys(holdShortcut), keycode) /\ isHoldPressed)

\* The handler of 'set-hold-shortcut': the shortcut is stored and
\* refreshShortcuts puts listeners in place that close over its parse.
SetHoldShortcut(shortcut) ==
  /\ holdShortcut' = shortcut
  /\ last' = [op |-> "set-hold-shortcut", shortcut |-> shortcut,
              result |-> [success |-> TRUE]]
  /\ UNCHANGED <<pressedKeys, isTogglePressed, isHoldPressed, lastHoldMessage,
                 file, bak, dbOpen, issued, rec>>

\* ----------------------------------------------------- renderer, recording
\* The recording functions of App and the listeners that call them. A
\* microphone stream is held as its number in order of opening, and the
\* MediaRecorder made for it has the same number; a ref that is null is 0.
\* (Pause and resume, which leave a recorder active, and the mouse handlers
\* of the record button are left out.)

\* The refs next to the state, when a handler changes neither.
RefsUnchanged == UNCHANGED <<isRecordingRef, isProcessingRef>>

\* startRecording(), up to its await: the microphone is asked for a stream.
startRecording ==
  /\ streamCount + pendingStarts < MaxStreams
  /\ pendingStarts' = pendingStarts + 1
  /\ UNCHANGED <<isRecording, isProcessing, streamCount, streams, streamRef,
                 recorders, mediaRecorderRef, stopEvents, processingCount>>
  /\ RefsUnchanged

\* stopRecording(): returns when there is no recorder or it is inactive; else
\* sets onstop and stops the recorder, which is inactive from then on and
\* gets its 'stop' event later.
stopRecording ==
  /\ IF mediaRecorderRef = 0 \/ recorders[mediaRecorderRef] = "inactive"
       THEN UNCHANGED <<recorders, stopEvents>>
       ELSE /\ recorders' = [recorders EXCEPT ![mediaRecorderRef] = "inactive"]
            /\ stopEvents' = stopEvents \cup {mediaRecorderRef}
  /\ UNCHANGED <<isRecording, isProcessing, pendingStarts, streamCount, streams,
                 streamRef, mediaRecorderRef, processingCount>>
  /\ RefsUnchanged

\* What a listener leaves alone.
ListenerFrame == UNCHANGED <<file, bak, dbOpen, issued, hold>>

\* The listener of 'toggle-recording'.
OnToggleRecording ==
  /\ IF isProcessingRef THEN UNCHANGED rec
     ELSE IF isRecordingRef THEN stopRecording ELSE startRecording
  /\ last' = [op |-> "toggle-recording"]
  /\ ListenerFrame

\* The listener of 'start-recording'.
OnStartRecording ==
  /\ IF isProcessingRef \/ isRecordingRef THEN UNCHANGED rec ELSE startRecording
  /\ last' = [op |-> "start-recording"]
  /\ ListenerFrame

\* The listener of 'stop-recording'.
OnStopRecording ==
  /\ IF isProcessingRef \/ ~isRecordingRef THEN UNCHANGED rec ELSE stopRecording
  /\ last' = [op |-> "stop-recording"]
  /\ ListenerFrame

\* startRecording() after its await, when getUserMedia has given a stream:
\* the stream and a new recorder for it are put in the refs, the recorder is
\* started and isRecording is set.
GetUserMediaResolves ==
  /\ pendingStarts > 0
  /\ pendingStarts' = pendingStarts - 1
  /\ streamCount' = streamCount + 1
  /\ streams' = streams \cup {streamCount + 1}
  /\ streamRef' = streamCount + 1
  /\ recorders' = [r \in DOMAIN recorders \cup {streamCount + 1} |->
                     IF r = streamCount + 1 THEN "recording" ELSE recorders[r]]
  /\ mediaRecorderRef' = streamCount + 1
  /\ isRecording' = TRUE
  /\ UNCHANGED <<isProcessing, stopEvents, processingCount>>
  /\ RefsUnchanged
  /\ last' = [op |-> "getUserMedia", result |-> "stream"]
  /\ ListenerFrame

\* startRecording() after its await, when getUserMedia has failed: the catch
\* sets the status 'Mic Error'.
GetUserMediaRejects ==
  /\ pendingStarts > 0
  /\ pendingStarts' = pendingStarts - 1
  /\ UNCHANGED <<isRecording, isProcessing, streamCount, streams, streamRef,
                 recorders, mediaRecorderRef, stopEvents, processingCount>>
  /\ RefsUnchanged
  /\ last' = [op |-> "getUserMedia", result |-> "error"]
  /\ ListenerFrame

\* The onstop handler that stopRecording has set, up to its first await: the
\* tracks of streamRef.current are stopped and the ref is null, isRecording
\* is unset and isProcessing set.
RecorderOnStop(recorder) ==
  /\ recorder \in stopEvents
  /\ stopEvents' = stopEvents \ {recorder}
  /\ streams' = streams \ {streamRef}
  /\ streamRef' = 0
  /\ isRecording' = FALSE
  /\ isProcessing' = TRUE
  /\ processingCount' = processingCount + 1
  /\ UNCHANGED <<pendingStarts, streamCount, recorders, mediaRecorderRef>>
  /\ RefsUnchanged
  /\ last' = [op |-> "onstop", recorder |-> recorder]
  /\ ListenerFrame

\* The end of an onstop handler, after transcription, formatting, saving and
\* pasting or an error of one of them: the finally unsets isProcessing.
ProcessingEnds ==
  /\ processingCount > 0
  /\ processingCount' = processingCount - 1
  /\ isProcessing' = FALSE
  /\ UNCHANGED <<isRecording, pendingStarts, streamCount, streams, streamRef,
                 recorders, mediaRecorderRef, stopEvents>>
  /\ RefsUnchanged
  /\ last' = [op |-> "processed"]
  /\ ListenerFrame

\* cancelRecording(), from the Cancel button, which is there when the last
\* render had isRecording set: returns when there is no recorder or it is
\* inactive; else stops the recorder (no onstop is set), stops the tracks of
\* streamRef.current and unsets isRecording.
cancelRecording ==
  /\ isRecordingRef
  /\ IF mediaRecorderRef = 0 \/ recorders[mediaRecorderRef] = "inactive"
       THEN UNCHANGED <<recorders, streams, streamRef, isRecording>>
       ELSE /\ recorders' = [recorders EXCEPT ![mediaRecorderRef] = "inactive"]
            /\ streams' = streams \ {streamRef}
            /\ streamRef' = 0
            /\ isRecording' = FALSE
  /\ UNCHANGED <<isProcessing, pendingStarts, streamCount, mediaRecorderRef,
                 stopEvents, processingCount>>
  /\ RefsUnchanged
  /\ last' = [op |-> "cancel"]
  /\ ListenerFrame

\* A render of App with the state as set, and its effects: the refs take the
\* values of isRecording and isProcessing.
Render ==
  /\ isRecordingRef # isRecording \/ isProcessingRef # isProcessing
  /\ isRecordingRef' = isRecording
  /\ isProcessingRef' = isProcessing
  /\ UNCHANGED <<isRecording, isProcessing, pendingStarts, streamCount, streams,
                 streamRef, recorders, mediaRecorderRef, stopEvents, processingCount>>
  /\ last' = [op |-> "render"]
  /\ ListenerFrame

\* ------------------------------------------------------------ input values
T_a == <<"a">>
T_b == <<"b">>
T_c == <<"c">>
T_ab == <<"a", " ", "b">>
T_A == <<"A">>
P_formal == <<"f","o","r","m","a","l">>

\* TranscriptionInsert values handed to saveTranscription.
SaveData ==
  { [raw_text |-> T_a, formatted_text |-> T_b, timestamp |-> 1,
     formatting_profile |-> Undefined, is_favorite |-> Undefined],
    [raw_text |-> T_ab, formatted_text |-> T_A, timestamp |-> 2,
     formatting_profile |-> Some(P_formal), is_favorite |-> Some(1)],
    [raw_text |-> T_c, formatted_text |-> T_c, timestamp |-> 1,
     formatting_profile |-> Undefined, is_favorite |-> Some(0)] }

NoUpdate == [raw_text |-> Undefined, formatted_text |-> Undefined,
             timestamp |-> Undefined, formatting_profile |-> Undefined,
             is_favorite |-> Undefined]

\* Partial<TranscriptionInsert> values handed to updateTranscription.
UpdateData ==
  { NoUpdate,
    [NoUpdate EXCEPT !.formatted_text = Some(T_c)],
    [NoUpdate EXCEPT !.is_favorite = Some(1)],
    [NoUpdate EXCEPT !.formatting_profile = Some(P_formal), !.is_favorite = Some(0)],
    [NoUpdate EXCEPT !.raw_text = Some(T_c), !.timestamp = Some(2)] }

\* Values of Date.now().
Clock == {7}

\* Ids handed to the operations that take one: the ids the store can have
\* handed out and one it never has.
IdArgs == 1..(MaxId + 1)

NoUserFilters == [startDate |-> Undefined, endDate |-> Undefined,
                  isFavorite |-> Undefined, tags |-> Undefined]

\* The optional filters of SearchOptions (a Date is given by its getTime()).
UserFilters ==
  { Undefined,
    Some([NoUserFilters EXCEPT !.isFavorite = Some(FALSE)]),
    Some([NoUserFilters EXCEPT !.isFavorite = Some(TRUE), !.startDate = Some(1)]),
    Some([NoUserFilters EXCEPT !.startDate = Some(2)]),
    Some([NoUserFilters EXCEPT !.endDate = Some(1)]),
    Some([NoUserFilters EXCEPT !.endDate = Some(0)]),
    Some([NoUserFilters EXCEPT !.tags = Some(<<<<"v">>>>)]) }

\* SearchOptions values handed to search.
Pages == {[limit |-> Undefined, offset |-> Undefined],
          [limit |-> Some(1), offset |-> Undefined],
          [limit |-> Some(1), offset |-> Some(1)]}

SearchOptions ==
  {[query |-> q, filters |-> f, limit |-> pg.limit, offset |-> pg.offset] :
     q \in Queries, f \in UserFilters, pg \in Pages}

\* TranscriptionFilters values handed to getTranscriptions.
ListFilters ==
  [isFavorite : {Undefined, Some(TRUE), Some(FALSE)},
   startDate : {Undefined, Some(0), Some(1), Some(2)},
   endDate : {Undefined, Some(0), Some(1), Some(2)},
   tags : {Undefined, Some(<<>>), Some(<<<<"w">>>>)},
   limit : {Undefined},
   offset : {Undefined}]

\* TranscriptionFilters values with limit and offset handed to getTranscriptions.
PageFilters ==
  [isFavorite : {Undefined, Some(FALSE)},
   startDate : {Undefined},
   endDate : {Undefined},
   tags : {Undefined},
   limit : {Undefined, Some(1), Some(2)},
   offset : {Undefined, Some(0), Some(1), Some(2)}]

\* TranscriptionInsert and update values of the runs that end in a read.
SaveDataRead == {d \in SaveData : d.raw_text # T_c}
UpdateDataRead == {[NoUpdate EXCEPT !.formatted_text = Some(T_c)]}

\* TranscriptionInsert and update values of the runs with backup and restore.
SaveDataBackup == {d \in SaveData : d.timestamp = 1}
UpdateDataBackup == {[NoUpdate EXCEPT !.formatted_text = Some(T_c)]}

\* The pieces query strings are put together from, separated by one blank: the
\* characters of the piece (text), what it is (kind) and what it stands for
\* (tag: the tag name, fav: the favorite flag, date: the start date; each is
\* read for a piece of that kind only).
Piece(kind, text, tag, fav, date) ==
  [kind |-> kind, text |-> text, tag |-> tag, fav |-> fav, date |-> date]

QueryPieces ==
  { Piece("word", <<"a">>, <<>>, FALSE, 0),
    Piece("word", <<"b">>, <<>>, FALSE, 0),
    Piece("tag", <<"t","a","g",":","W">>, <<"w">>, FALSE, 0),
    Piece("tag", <<"#","x">>, <<"x">>, FALSE, 0),
    Piece("fav", <<"f","a","v",":","t","r","u","e">>, <<>>, TRUE, 0),
    Piece("fav", <<"F","A","V",":","F","a","l","s","e">>, <<>>, FALSE, 0),
    Piece("date", <<"d","a","t","e",":","w","e","e","k">>, <<>>, FALSE, StartOfWeek),
    Piece("date", <<"D","a","t","e",":","T","o","d","a","y">>, <<>>, FALSE, StartOfToday),
    Piece("date", <<"d","a","t","e",":","m","o","n","t","h">>, <<>>, FALSE, StartOfMonth),
    Piece("other", <<"d","a","t","e",":","x">>, <<>>, FALSE, 0),
    Piece("other", <<"f","a","v",":","n","o">>, <<>>, FALSE, 0),
    Piece("other", <<"t","o",":","b">>, <<>>, FALSE, 0) }

\* The query strings of at most MaxPieces pieces, as sequences of pieces.
PieceSeqs == UNION {[1..n -> QueryPieces] : n \in 0..MaxPieces}

\* The query string of a sequence of pieces.
RECURSIVE JoinPieces(_)
JoinPieces(pieces) ==
  IF pieces = <<>> THEN <<>>
  ELSE IF Len(pieces) = 1 THEN pieces[1].text
  ELSE pieces[1].text \o <<" ">> \o JoinPieces(Tail(pieces))

\* The statement of the migration script that fails at a startup (0: none):
\* one of the CREATE statements or the INSERT after them.
FailPoints == 0..(Len(MigrationScript) + 1)

\* TranscriptionInsert and update values of the runs about the favorite flag:
\* is_favorite is a number the caller chooses.
SaveDataFavorite ==
  {[raw_text |-> T_a, formatted_text |-> T_b, timestamp |-> 1,
    formatting_profile |-> Undefined, is_favorite |-> f] :
     f \in {Undefined, Some(1), Some(2)}}
UpdateDataFavorite == {[NoUpdate EXCEPT !.is_favorite = Some(v)] : v \in {0, 2}}

\* ----------------------------------------------------------- specification
\* The store's calls, with ids it has handed out and ids it has not.
Next ==
  \/ \E data \in SaveData, now \in Clock : saveTranscription(data, now)
  \/ \E id \in IdArgs : getTranscription(id)
  \/ \E id \in IdArgs, updates \in UpdateData : updateTranscription(id, updates)
  \/ \E id \in IdArgs : deleteTranscription(id)
  \/ \E id \in IdArgs : toggleFavorite(id)

Spec == Init /\ [][Next]_vars

\* The store's calls together with backup, close, restore and reopening.
NextBackup ==
  \/ \E data \in SaveDataBackup, now \in Clock : saveTranscription(data, now)
  \/ \E id \in IdArgs, updates \in UpdateDataBackup : updateTranscription(id, updates)
  \/ \E id \in IdArgs : deleteTranscription(id)
  \/ \E copyOk \in BOOLEAN : Backup(copyOk)
  \/ \E copyOk \in BOOLEAN : Close(copyOk)
  \/ \E backupOk \in BOOLEAN, copyOk \in BOOLEAN : restore(backupOk, copyOk)
  \/ Construct(0)

SpecBackup == Init /\ [][NextBackup]_vars

\* A read leaves the tables as they are, so whatever a run reaches after a
\* read it also reaches without it: the runs that end in a read are explored
\* up to that read.
BeforeRead == last.op \notin {"search", "getTranscriptions"}

\* Changes to the notes a list shows (their ids are live), then one search.
NextSearch ==
  \/ BeforeRead /\ \E data \in SaveDataRead, now \in Clock : saveTranscription(data, now)
  \/ BeforeRead /\ \E id \in DOMAIN transcriptions, updates \in UpdateDataRead :
                     updateTranscription(id, updates)
  \/ BeforeRead /\ \E id \in DOMAIN transcriptions : deleteTranscription(id)
  \/ BeforeRead /\ \E id \in DOMAIN transcriptions : toggleFavorite(id)
  \/ BeforeRead /\ \E options \in SearchOptions : Search(options)

SpecSearch == Init /\ [][NextSearch]_vars

\* Changes to the notes a list shows, then one listing.
NextList ==
  \/ BeforeRead /\ \E data \in SaveDataRead, now \in Clock : saveTranscription(data, now)
  \/ BeforeRead /\ \E id \in DOMAIN transcriptions, updates \in UpdateDataRead :
                     updateTranscription(id, updates)
  \/ BeforeRead /\ \E id \in DOMAIN transcriptions : deleteTranscription(id)
  \/ BeforeRead /\ \E id \in DOMAIN transcriptions : toggleFavorite(id)
  \/ BeforeRead /\ \E filters \in ListFilters : GetTranscriptions(filters)

SpecList == Init /\ [][NextList]_vars

\* Changes to the notes a list shows, then one page of a listing.
NextPage ==
  \/ BeforeRead /\ \E data \in SaveDataRead, now \in Clock : saveTranscription(data, now)
  \/ BeforeRead /\ \E id \in DOMAIN transcriptions, updates \in UpdateDataRead :
                     updateTranscription(id, updates)
  \/ BeforeRead /\ \E id \in DOMAIN transcriptions : deleteTranscription(id)
  \/ BeforeRead /\ \E id \in DOMAIN transcriptions : toggleFavorite(id)
  \/ BeforeRead /\ \E filters \in PageFilters : GetTranscriptions(filters)

SpecPage == Init /\ [][NextPage]_vars

\* The store's calls that write the favorite flag.
NextFavorite ==
  \/ \E data \in SaveDataFavorite, now \in Clock : saveTranscription(data, now)
  \/ \E id \in IdArgs, updates \in UpdateDataFavorite : updateTranscription(id, updates)
  \/ \E id \in IdArgs : deleteTranscription(id)
  \/ \E id \in IdArgs : toggleFavorite(id)

SpecFavorite == Init /\ [][NextFavorite]_vars

\* Before the first start: no file (an empty one has the same content), no
\* connection, no backup.
InitStartup ==
  /\ transcriptions = NoRows
  /\ transcriptions_fts = {}
  /\ sqlite_sequence = 0
  /\ tags = {}
  /\ note_tags = {}
  /\ sqlite_master = {}
  /\ schema_version = {}
  /\ dictionary_entries = NoRows
  /\ bak = NoFile
  /\ dbOpen = FALSE
  /\ issued = {}
  /\ InitUi
  /\ last = [op |-> "none"]

\* Startups, each with a statement of the migration that fails or none, and
\* between them the store's calls and close().
NextStartup ==
  \/ \E failAt \in FailPoints : Construct(failAt)
  \/ \E data \in SaveDataBackup, now \in Clock : saveTranscription(data, now)
  \/ \E id \in IdArgs : deleteTranscription(id)
  \/ dbOpen /\ \E copyOk \in BOOLEAN : Close(copyOk)

SpecStartup == InitStartup /\ [][NextStartup]_vars

\* Texts with the characters JSON escapes.
T_quote == <<"a", "\"", "b">>
T_escapes == <<"\\", "n", "\n">>

\* TranscriptionInsert values of the runs about export: two of equal timestamp,
\* one later, with texts that need escaping.
SaveDataExport ==
  { [raw_text |-> T_a, formatted_text |-> T_quote, timestamp |-> 2,
     formatting_profile |-> Undefined, is_favorite |-> Undefined],
    [raw_text |-> T_escapes, formatted_text |-> T_b, timestamp |-> 1,
     formatting_profile |-> Some(P_formal), is_favorite |-> Some(1)] }

\* The id lists handed to exportTranscriptions: empty, with repeated ids, with
\* ids that are not stored.
ExportIds == UNION {[1..n -> IdArgs] : n \in 0..2}

\* The formats handed to exportTranscriptions; "csv" is not one the code knows.
ExportFormats == {"json", "markdown", "txt", "csv"}

NextExport ==
  \/ \E data \in SaveDataExport, now \in Clock : saveTranscription(data, now)
  \/ \E id \in IdArgs : deleteTranscription(id)
  \/ \E ids \in ExportIds, format \in ExportFormats : ExportTranscriptions(ids, format)

SpecExport == Init /\ [][NextExport]_vars

\* Phrases and replacements of dictionary entries: a phrase inside a longer
\* one whose replacement holds the shorter phrase again ("js", "n js"), and a
\* pair whose replacements hold no phrase ("k s", "k s c").
W_js == <<"j", "s">>
W_n_js == <<"n", " ", "j", "s">>
W_k_s == <<"k", " ", "s">>
W_k_s_c == <<"k", " ", "s", " ", "c">>
R_Java == <<"J", "a", "v", "a">>
R_N_js == <<"N", ".", "j", "s">>
R_K == <<"K", "*">>
R_K_c == <<"K", "*", "-", "c">>

\* DictionaryEntryInsert values handed to 'dict:add-entry'.
DictData ==
  { [spoken_phrase |-> W_js, replacement |-> R_Java, is_case_sensitive |-> Undefined],
    [spoken_phrase |-> W_n_js, replacement |-> R_N_js, is_case_sensitive |-> Some(FALSE)],
    [spoken_phrase |-> W_k_s, replacement |-> R_K, is_case_sensitive |-> Some(TRUE)],
    [spoken_phrase |-> W_k_s_c, replacement |-> R_K_c, is_case_sensitive |-> Undefined] }

NoEntryUpdate == [spoken_phrase |-> Undefined, replacement |-> Undefined,
                  is_case_sensitive |-> Undefined, is_enabled |-> Undefined]

\* The updates handed to 'dict:update-entry'.
DictUpdates ==
  { NoEntryUpdate,
    [NoEntryUpdate EXCEPT !.spoken_phrase = Some(W_js)],
    [NoEntryUpdate EXCEPT !.is_enabled = Some(FALSE)] }

\* Ids handed to the dictionary handlers: the ids entries can have and one more.
EntryIdArgs == 1..(MaxEntryId + 1)

\* The texts handed to 'dict:apply-replacements'.
DictTexts ==
  { <<"n", " ", "j", "s">>,
    <<"x", " ", "N", " ", "J", "S", " ", "y">>,
    <<"x", " ", "k", " ", "s", " ", "c", " ", "y">>,
    <<"k", " ", "s">> }

NextDictionary ==
  \/ \E data \in DictData, now \in Clock : DictAddEntry(data, now)
  \/ \E id \in EntryIdArgs, updates \in DictUpdates, now \in Clock :
       DictUpdateEntry(id, updates, now)
  \/ \E id \in EntryIdArgs : DictDeleteEntry(id)
  \/ \E id \in EntryIdArgs, now \in Clock : DictToggleEnabled(id, now)
  \/ \E text \in DictTexts : DictApplyReplacements(text)

SpecDictionary == Init /\ [][NextDictionary]_vars

\* A query string is chosen, with the empty store of Init.
InitParse ==
  /\ transcriptions = NoRows
  /\ transcriptions_fts = {}
  /\ sqlite_sequence = 0
  /\ tags = {}
  /\ note_tags = {}
  /\ sqlite_master = EnsureDictionary(migrate({}, {}, 0).sqlite_master)
  /\ schema_version = migrate({}, {}, 0).schema_version
  /\ dictionary_entries = NoRows
  /\ bak = NoFile
  /\ dbOpen = TRUE
  /\ issued = {}
  /\ InitUi
  /\ last \in {[op |-> "query", pieces |-> ps] : ps \in PieceSeqs}

\* The call searchService.parseQuery(rawQuery) on the chosen query string.
ParseQuery ==
  /\ last.op = "query"
  /\ last' = [op |-> "parseQuery", pieces |-> last.pieces,
              rawQuery |-> JoinPieces(last.pieces),
              result |-> parseQuery(JoinPieces(last.pieces))]
  /\ UNCHANGED <<file, bak, dbOpen, issued>>
  /\ UNCHANGED ui

NextParse == ParseQuery

SpecParse == InitParse /\ [][NextParse]_vars

\* The key codes of the events, and the hold shortcuts that are set: '',
\* 'Space', 'Ctrl+Space', 'f9', 'Ctrl' (no key) and 'Fn+F9' (a part that
\* parseShortcutToKeyCodes passes over).
KeyCodes == {"Space", "F9", "Ctrl", "CtrlRight", "Shift"}
ShortcutArgs ==
  {<<>>, <<"Space">>, <<"Ctrl", "Space">>, <<"f9">>, <<"Ctrl">>, <<"Fn", "F9">>}

\* Key events, auto-repeat included, and changes of the hold shortcut.
NextHold ==
  \/ \E keycode \in KeyCodes : KeyDown(keycode)
  \/ \E keycode \in KeyCodes : KeyUp(keycode)
  \/ \E shortcut \in ShortcutArgs : SetHoldShortcut(shortcut)

SpecHold == Init /\ [][NextHold]_vars

\* The messages of the main process, the answers of getUserMedia, the 'stop'
\* events of the recorders, the Cancel button and the renders, in any order.
NextRecording ==
  \/ OnToggleRecording
  \/ OnStartRecording
  \/ OnStopRecording
  \/ GetUserMediaResolves
  \/ GetUserMediaRejects
  \/ \E recorder \in 1..MaxStreams : RecorderOnStop(recorder)
  \/ ProcessingEnds
  \/ cancelRecording
  \/ Render

SpecRecording == Init /\ [][NextRecording]_vars

\* ------------------------------------------------------------------ claims
\* The tokens of a row's current raw_text and formatted_text.
RowTokens(row) == Tokens(row.raw_text) \cup Tokens(row.formatted_text)

\* The tokens the runs' texts and queries are made of.
Vocabulary == {<<"a">>, <<"b">>, <<"c">>, <<"x">>}

\* C1: after any sequence of saveTranscription, updateTranscription,
\* toggleFavorite and deleteTranscription the index has, for each live note, the
\* tokens of its current raw_text and formatted_text and nothing else, so a
\* search for a token finds a note if and only if the note is live and its
\* current text has the token.
C1_SearchFindsCurrentText ==
  \A t \in Vocabulary :
    Fts5Match(transcriptions_fts, {t}) \cap DOMAIN transcriptions
      = {i \in DOMAIN transcriptions : t \in RowTokens(transcriptions[i])}

\* C2: when a backup exists (and the file copies succeed), restore() returns
\* true and the live store then holds the notes the backup held immediately
\* before the call.
C2_RestoreRevertsToBackup ==
  [][(last'.op = "restore" /\ bak.exists /\ last'.backupOk /\ last'.copyOk)
       => (last'.result = TRUE /\ transcriptions' = bak.transcriptions)]_vars

\* C3: for an id that is no live note, getTranscription returns null, and
\* updateTranscription, deleteTranscription and toggleFavorite return without
\* an error and leave the notes, the index and the stats as they were.
C3_MissingIdNoOp ==
  [][(/\ last'.op \in {"getTranscription", "updateTranscription",
                       "deleteTranscription", "toggleFavorite"}
      /\ last'.id \notin DOMAIN transcriptions)
       => /\ transcriptions' = transcriptions
          /\ transcriptions_fts' = transcriptions_fts
          /\ sqlite_sequence' = sqlite_sequence
          /\ note_tags' = note_tags
          /\ getStats' = getStats
          /\ last'.op = "getTranscription" => last'.result = Undefined
          /\ last'.op # "getTranscription" => last'.result = "void"]_vars

\* C3 witness: an update with a field to set was made for the id of a deleted
\* note while another note is live.
C3_Witness ==
  /\ last.op = "updateTranscription"
  /\ IsDefined(last.updates.formatted_text)
  /\ last.id \notin DOMAIN transcriptions
  /\ last.id <= sqlite_sequence
  /\ DOMAIN transcriptions # {}

\* C4: total of a search result is the number of live notes, whatever the
\* query, the filters, limit and offset.
C4_TotalIsStoreCount ==
  (last.op = "search" /\ last.result.ok)
    => last.result.total = Cardinality(DOMAIN transcriptions)

\* C4 witness: a filtered text search returned fewer notes than the store
\* holds, at a non-zero offset.
C4_Witness ==
  /\ last.op = "search"
  /\ last.result.ok
  /\ Trim(last.result.searchText) # <<>>
  /\ IsDefined(last.options.filters)
  /\ OffsetOf(last.options) = 1
  /\ Len(last.result.transcriptions) = 1
  /\ Cardinality(DOMAIN transcriptions) = 2

\* C5: hasMore is true exactly when offset + number of notes returned < total,
\* total being the number of live notes.
C5_HasMoreFormula ==
  (last.op = "search" /\ last.result.ok)
    => (last.result.hasMore
          <=> OffsetOf(last.options) + Len(last.result.transcriptions)
                < Cardinality(DOMAIN transcriptions))

\* C5 witness: a page at offset 1 that ends exactly at the last note of the
\* store, so hasMore is false.
C5_Witness ==
  /\ last.op = "search"
  /\ last.result.ok
  /\ OffsetOf(last.options) = 1
  /\ Len(last.result.transcriptions) = 1
  /\ Cardinality(DOMAIN transcriptions) = 2
  /\ ~last.result.hasMore

\* C6 as claimed: a search that returns no note reports hasMore = false.
C6_EmptyResultHasNoMore ==
  (last.op = "search" /\ last.result.ok /\ last.result.transcriptions = <<>>)
    => ~last.result.hasMore

\* C6 amended: a search that returns no note reports hasMore = false exactly
\* when offset >= total (so when the store is empty), and true otherwise.
C6_EmptyResultHasMoreIffOffsetBelowTotal ==
  (last.op = "search" /\ last.result.ok /\ last.result.transcriptions = <<>>)
    => (~last.result.hasMore
          <=> OffsetOf(last.options) >= Cardinality(DOMAIN transcriptions))

\* C6 witness: a text search that matches nothing in a store that has a note,
\* asked at offset 1 = total, reports hasMore = false.
C6_Witness ==
  /\ last.op = "search"
  /\ last.result.ok
  /\ last.result.transcriptions = <<>>
  /\ Trim(last.result.searchText) # <<>>
  /\ Cardinality(DOMAIN transcriptions) = 1
  /\ OffsetOf(last.options) = 1
  /\ ~last.result.hasMore

\* The tag list of a filter object ([] when it has none).
TagsOf(f) == IF IsDefined(f.tags) THEN f.tags[1] ELSE <<>>

\* The value a caller supplied for a field of the explicit filters.
Explicit(options, field) ==
  IF IsDefined(options.filters) THEN options.filters[1][field] ELSE Undefined

\* C7: the merged filters of search have, for isFavorite, startDate and endDate,
\* the explicit value when the caller supplied one and the value parsed from
\* the query otherwise; tags are the parsed tags followed by the explicit tags.
C7_MergedFilters ==
  last.op = "search" =>
    LET parsed == ParsedQuery[last.options.query].filters
        merged == last.result.combinedFilters
    IN /\ \A field \in {"isFavorite", "startDate", "endDate"} :
            merged[field] = IF IsDefined(Explicit(last.options, field))
                              THEN Explicit(last.options, field)
                              ELSE parsed[field]
       /\ TagsOf(merged)
            = TagsOf(parsed) \o (IF IsDefined(Explicit(last.options, "tags"))
                                   THEN Explicit(last.options, "tags")[1] ELSE <<>>)

\* C7 witness: the query fav:true with the explicit filter isFavorite = false
\* returned notes, none of them a favorite, while the store has a favorite.
C7_Witness ==
  /\ last.op = "search"
  /\ last.options.query = Q_favTrue
  /\ Explicit(last.options, "isFavorite") = Some(FALSE)
  /\ last.result.ok
  /\ last.result.transcriptions # <<>>
  /\ \A k \in 1..Len(last.result.transcriptions) :
       last.result.transcriptions[k].is_favorite = 0
  /\ \E i \in DOMAIN transcriptions : transcriptions[i].is_favorite = 1

TimestampDescending(rows) ==
  \A a, b \in 1..Len(rows) : a < b => rows[a].timestamp >= rows[b].timestamp

\* The filters as C9 and C10 state them: is_favorite equal to the flag, both
\* date bounds inclusive for every value supplied, any of the listed tags.
SatisfiesFilters(row, filters) ==
  /\ IsDefined(filters.isFavorite) =>
       row.is_favorite = (IF filters.isFavorite[1] THEN 1 ELSE 0)
  /\ IsDefined(filters.startDate) => filters.startDate[1] <= row.timestamp
  /\ IsDefined(filters.endDate) => row.timestamp <= filters.endDate[1]
  /\ TagsOf(filters) # <<>> =>
       \E nt \in note_tags :
         /\ nt.note_id = row.id
         /\ \E t \in tags : t.id = nt.tag_id /\ t.name \in Range(TagsOf(filters))

\* C9: for a search with non-blank search text, every note returned is a live
\* note whose current raw_text and formatted_text have every token of the
\* search text and which satisfies every merged filter; and a search asked
\* from offset 0 with the default limit returns every such note.
C9_TextSearchReturnsMatchingNotes ==
  (last.op = "search" /\ last.result.ok /\ Trim(last.result.searchText) # <<>>)
    => LET matching ==
             {i \in DOMAIN transcriptions :
                /\ Tokens(last.result.searchText) \subseteq RowTokens(transcriptions[i])
                /\ SatisfiesFilters(transcriptions[i], last.result.combinedFilters)}
           returned == {last.result.transcriptions[k].id :
                          k \in 1..Len(last.result.transcriptions)}
       IN /\ returned \subseteq matching
          /\ (OffsetOf(last.options) = 0 /\ ~IsDefined(last.options.limit))
               => matching \subseteq returned

\* C10: getTranscriptions(filters) without limit and offset returns exactly the
\* live notes that satisfy all the supplied filters, in descending timestamp
\* order.
C10_ListingIsFilteredNotes ==
  (/\ last.op = "getTranscriptions"
   /\ ~IsDefined(last.filters.limit)
   /\ ~IsDefined(last.filters.offset))
    => /\ last.result.ok
       /\ Range(last.result.rows)
            = {transcriptions[i] : i \in
                 {j \in DOMAIN transcriptions :
                    SatisfiesFilters(transcriptions[j], last.filters)}}
       /\ Len(last.result.rows) = Cardinality(Range(last.result.rows))
       /\ TimestampDescending(last.result.rows)

\* The elements at positions O .. O+L-1 (counted from 0) of a sequence; through
\* the last element when limit is omitted.
PageOf(seq, limit, offset) ==
  LET O == IF IsDefined(offset) THEN offset[1] ELSE 0
      last_ == IF IsDefined(limit) /\ O + limit[1] < Len(seq) THEN O + limit[1] ELSE Len(seq)
  IN SubSeq(seq, O + 1, last_)

\* C11: for every offset O >= 0 and every limit L >= 1 or omitted,
\* getTranscriptions returns the elements at positions O .. O+L-1 of the
\* unpaginated listing under the same filters (through its last element when
\* limit is omitted).
C11_PageIsSliceOfListing ==
  (/\ last.op = "getTranscriptions"
   /\ IsDefined(last.filters.limit) => last.filters.limit[1] >= 1
   /\ IsDefined(last.filters.offset) => last.filters.offset[1] >= 0)
    => LET full == getTranscriptions([last.filters EXCEPT !.limit = Undefined,
                                                          !.offset = Undefined])
       IN /\ last.result.ok
          /\ last.result.rows = PageOf(full.rows, last.filters.limit, last.filters.offset)

\* C12: every id saveTranscription returns is greater than every id an earlier
\* saveTranscription returned, whatever deletes, backups, restores, closes and
\* reopenings come between.
C12_InsertIdsIncrease ==
  [][(last'.op = "saveTranscription" /\ transcriptions' # transcriptions)
       => \A i \in issued : last'.result > i]_vars

\* C13: updateTranscription(id, fields) on a live note sets each provided field
\* among formatted_text, formatting_profile and is_favorite to the given value
\* and leaves the note's id, raw_text, timestamp and created_at, its fields not
\* provided, and every other note as they were.
C13_UpdateSetsProvidedFieldsOnly ==
  [][(last'.op = "updateTranscription" /\ last'.id \in DOMAIN transcriptions)
       => /\ DOMAIN transcriptions' = DOMAIN transcriptions
          /\ \A i \in DOMAIN transcriptions \ {last'.id} :
               transcriptions'[i] = transcriptions[i]
          /\ \A f \in {"id", "raw_text", "timestamp", "created_at"} :
               transcriptions'[last'.id][f] = transcriptions[last'.id][f]
          /\ \A f \in {"formatted_text", "formatting_profile", "is_favorite"} :
               transcriptions'[last'.id][f] =
                 IF IsDefined(last'.updates[f]) THEN last'.updates[f][1]
                 ELSE transcriptions[last'.id][f]]_vars

\* C13 witness: an update of formatted_text alone was made to a favorite note
\* of profile formal while another note is live, and the note is still a
\* favorite of profile formal.
C13_Witness ==
  /\ last.op = "updateTranscription"
  /\ last.id \in DOMAIN transcriptions
  /\ last.updates.formatted_text = Some(T_c)
  /\ ~IsDefined(last.updates.is_favorite)
  /\ transcriptions[last.id].formatted_text = T_c
  /\ transcriptions[last.id].raw_text = T_ab
  /\ transcriptions[last.id].is_favorite = 1
  /\ transcriptions[last.id].formatting_profile = P_formal
  /\ Cardinality(DOMAIN transcriptions) = 2

\* C14: toggleFavorite(id) on a live note changes its is_favorite from 0 to 1
\* or from 1 to 0 (so a second toggle brings the first value back) and changes
\* nothing else: not the note's other fields, not another note, not the index.
C14_ToggleFlipsFlagOnly ==
  [][(last'.op = "toggleFavorite" /\ last'.id \in DOMAIN transcriptions)
       => /\ DOMAIN transcriptions' = DOMAIN transcriptions
          /\ \/ transcriptions[last'.id].is_favorite = 0
                  /\ transcriptions'[last'.id].is_favorite = 1
             \/ transcriptions[last'.id].is_favorite = 1
                  /\ transcriptions'[last'.id].is_favorite = 0
          /\ transcriptions' =
               [transcriptions EXCEPT
                  ![last'.id].is_favorite = transcriptions'[last'.id].is_favorite]
          /\ transcriptions_fts' = transcriptions_fts
          /\ sqlite_sequence' = sqlite_sequence]_vars

\* The maximal runs of non-blank characters of a string, from left to right.
RECURSIVE SplitBlankFrom(_, _, _, _)
SplitBlankFrom(s, i, cur, acc) ==
  IF i > Len(s)
    THEN IF cur = <<>> THEN acc ELSE Append(acc, cur)
    ELSE IF s[i] = " "
      THEN SplitBlankFrom(s, i + 1, <<>>, IF cur = <<>> THEN acc ELSE Append(acc, cur))
      ELSE SplitBlankFrom(s, i + 1, Append(cur, s[i]), acc)

SplitBlank(s) == SplitBlankFrom(s, 1, <<>>, <<>>)

\* The pieces of one kind, in order of appearance, and what they stand for.
PiecesOfKind(pieces, kind) == SelectSeq(pieces, LAMBDA p : p.kind = kind)
ValuesOfKind(pieces, kind) ==
  [k \in 1..Len(PiecesOfKind(pieces, kind)) |-> PiecesOfKind(pieces, kind)[k][kind]]
TextsOfKind(pieces, kind) ==
  [k \in 1..Len(PiecesOfKind(pieces, kind)) |-> PiecesOfKind(pieces, kind)[k].text]

\* Whether an optional filter value is as the directives of a kind say: absent
\* without such a directive, else the value of one of them.
PerDirective(value, pieces, kind) ==
  IF PiecesOfKind(pieces, kind) = <<>>
    THEN value = Undefined
    ELSE IsDefined(value) /\ value[1] \in Range(ValuesOfKind(pieces, kind))

\* C15: for a query of free-text words and recognized directives, in any order
\* and number, parseQuery returns the free-text words alone as searchText (no
\* blank at either end, empty when there is no word), the lower-cased tag words
\* in order of appearance, isFavorite as a fav directive says and startDate as
\* a date directive says.
C15_ParseOfWordsAndDirectives ==
  (last.op = "parseQuery" /\ PiecesOfKind(last.pieces, "other") = <<>>)
    => /\ SplitBlank(last.result.searchText) = TextsOfKind(last.pieces, "word")
       /\ Trim(last.result.searchText) = last.result.searchText
       /\ TagsOf(last.result.filters) = ValuesOfKind(last.pieces, "tag")
       /\ PerDirective(last.result.filters.isFavorite, last.pieces, "fav")
       /\ PerDirective(last.result.filters.startDate, last.pieces, "date")
       /\ last.result.filters.endDate = Undefined

\* The texts of the directive-shaped pieces parseQuery does not recognize.
OtherTexts == {p.text : p \in {q \in QueryPieces : q.kind = "other"}}

\* C16: a directive-shaped piece that parseQuery does not recognize (date:x,
\* fav:no, to:b) stays in searchText as it is, and sets no filter: the filters
\* are those of the recognized directives of the query.
C16_UnrecognizedPiecesStay ==
  last.op = "parseQuery"
    => /\ SelectSeq(SplitBlank(last.result.searchText), LAMBDA w : w \in OtherTexts)
            = TextsOfKind(last.pieces, "other")
       /\ TagsOf(last.result.filters) = ValuesOfKind(last.pieces, "tag")
       /\ PerDirective(last.result.filters.isFavorite, last.pieces, "fav")
       /\ PerDirective(last.result.filters.startDate, last.pieces, "date")
       /\ last.result.filters.endDate = Undefined


\* The version the version table records, 0 when it records none.
RecordedVersion ==
  IF schema_version = {} THEN 0
  ELSE CHOOSE v \in schema_version : \A w \in schema_version : v >= w

\* C17: a startup on a file that is at the target schema version succeeds and
\* changes nothing in the file: not the schema, not the recorded version, not a
\* stored Note.  Over any sequence of startups and calls the recorded version
\* never decreases, the version table never holds more than one value, and it
\* holds one whenever a startup has succeeded.
C17_StartupAtTargetVersionIsNoOp ==
  [][/\ (/\ ~dbOpen
         /\ last'.op = "constructor"
         /\ "schema_version" \in sqlite_master
         /\ schema_version = {TargetVersion})
          => (last'.result = "ok" /\ dbOpen' /\ file' = file)
     /\ RecordedVersion' >= RecordedVersion
     /\ Cardinality(schema_version') <= 1
     /\ dbOpen' => Cardinality(schema_version') = 1]_vars

\* A store that holds a Note has been closed and started again.
C17_Witness ==
  /\ last.op = "constructor"
  /\ last.version = TargetVersion
  /\ last.result = "ok"
  /\ DOMAIN transcriptions # {}

\* What a fresh store must hold: the Notes table, the search index and its three
\* triggers, the tag tables, the dictionary table and the four indexes.
RequiredObjects ==
  {"transcriptions", "transcriptions_fts",
   "transcriptions_ai", "transcriptions_au", "transcriptions_ad",
   "tags", "note_tags", "dictionary_entries",
   "idx_timestamp", "idx_favorite", "idx_tags_name", "idx_tags_count"}

C19_BackupCopiesLiveStore ==
  [][last'.op = "backup"
       => /\ last'.result = "void"
          /\ file' = file
          /\ dbOpen' = dbOpen
          /\ last'.copyOk => (bak'.exists /\ bak'.transcriptions = transcriptions)]_vars

\* A backup has succeeded on a store that holds a Note.
C19_Witness ==
  /\ last.op = "backup"
  /\ last.copyOk
  /\ bak.exists
  /\ DOMAIN bak.transcriptions # {}

\* C20: restore() without a backup file returns false, changes nothing in the
\* live file, and leaves the connection as it was: open when it was open.
C20_RestoreWithoutBackup ==
  [][(last'.op = "restore" /\ ~bak.exists)
       => /\ last'.result = FALSE
          /\ file' = file
          /\ bak' = bak
          /\ dbOpen' = dbOpen]_vars

\* restore() has returned false for want of a backup, on an open store that
\* holds a Note.
C20_Witness ==
  /\ last.op = "restore"
  /\ last.result = FALSE
  /\ ~bak.exists
  /\ dbOpen
  /\ DOMAIN transcriptions # {}

\* Whether the characters between the quotes of a string literal are JSON: no
\* bare quote or line feed, a backslash only before a character it can escape.
RECURSIVE JsonBodyOk(_)
JsonBodyOk(s) ==
  IF s = <<>> THEN TRUE
  ELSE IF s[1] = "\\"
    THEN Len(s) >= 2 /\ s[2] \in {"\"", "\\", "n"} /\ JsonBodyOk(Tail(Tail(s)))
    ELSE s[1] \notin {"\"", "\n"} /\ JsonBodyOk(Tail(s))

\* The string a well-formed literal body stands for.
RECURSIVE JsonUnescape(_)
JsonUnescape(s) ==
  IF s = <<>> THEN <<>>
  ELSE IF s[1] = "\\"
    THEN <<IF s[2] = "n" THEN "\n" ELSE s[2]>> \o JsonUnescape(Tail(Tail(s)))
    ELSE <<s[1]>> \o JsonUnescape(Tail(s))

\* Whether token t is the punctuation c.
IsPunct(t, c) == t.tok = "punct" /\ t.punct = c

\* JSON.parse of a value token: the string or the number, or a syntax error.
JsonValue(t) ==
  IF t.tok = "number" THEN [ok |-> TRUE, value |-> t.number]
  ELSE IF /\ t.tok = "string"
          /\ Len(t.chars) >= 2
          /\ t.chars[1] = "\"" /\ t.chars[Len(t.chars)] = "\""
          /\ JsonBodyOk(SubSeq(t.chars, 2, Len(t.chars) - 1))
    THEN [ok |-> TRUE, value |-> JsonUnescape(SubSeq(t.chars, 2, Len(t.chars) - 1))]
    ELSE [ok |-> FALSE]

\* JSON.parse from token i on, inside an object: members "key": value separated
\* by commas up to the closing brace.  obj is the object read so far; the value
\* is the object and the position after it, or a syntax error.
RECURSIVE JsonParseMembers(_, _, _)
JsonParseMembers(toks, i, obj) ==
  IF i + 3 > Len(toks) \/ toks[i].tok # "key" \/ ~IsPunct(toks[i + 1], ":")
     \/ toks[i + 2].tok \notin {"string", "number"} \/ ~JsonValue(toks[i + 2]).ok
    THEN [ok |-> FALSE]
    ELSE IF IsPunct(toks[i + 3], "}")
      THEN [ok |-> TRUE, next |-> i + 4,
            value |-> Put(obj, toks[i].key, JsonValue(toks[i + 2]).value)]
      ELSE IF IsPunct(toks[i + 3], ",")
        THEN JsonParseMembers(toks, i + 4,
                              Put(obj, toks[i].key, JsonValue(toks[i + 2]).value))
        ELSE [ok |-> FALSE]

\* JSON.parse from token i on, inside an array of objects: acc is the array
\* read so far.
RECURSIVE JsonParseElements(_, _, _)
JsonParseElements(toks, i, acc) ==
  IF i > Len(toks) THEN [ok |-> FALSE]
  ELSE IF IsPunct(toks[i], "]")
    THEN [ok |-> i = Len(toks) /\ (acc = <<>> \/ ~IsPunct(toks[i - 1], ",")),
          value |-> acc]
    ELSE IF IsPunct(toks[i], "{")
      THEN LET o == JsonParseMembers(toks, i + 1, NoRows) IN
           IF ~o.ok \/ o.next > Len(toks) THEN [ok |-> FALSE]
           ELSE IF IsPunct(toks[o.next], ",")
             THEN JsonParseElements(toks, o.next + 1, Append(acc, o.value))
             ELSE IF IsPunct(toks[o.next], "]")
               THEN JsonParseElements(toks, o.next, Append(acc, o.value))
               ELSE [ok |-> FALSE]
      ELSE [ok |-> FALSE]

\* JSON.parse of the tokens of an array of objects.
JsonParse(toks) ==
  IF toks = <<>> \/ ~IsPunct(toks[1], "[") THEN [ok |-> FALSE]
  ELSE JsonParseElements(toks, 2, <<>>)

\* Whether the parse of an export holds one record per live Note among ids,
\* each equal to the stored Note, in ascending timestamp.
IsExportOf(parse, ids) ==
  /\ parse.ok
  /\ Len(parse.value) = Cardinality(Range(ids) \cap DOMAIN transcriptions)
  /\ \A k \in 1..Len(parse.value) :
       /\ DOMAIN parse.value[k] = Range(Columns)
       /\ parse.value[k].id \in Range(ids) \cap DOMAIN transcriptions
       /\ \A c \in Range(Columns) :
            parse.value[k][c] = transcriptions[parse.value[k].id][c]
  /\ \A j, k \in 1..Len(parse.value) :
       /\ j < k => parse.value[j].timestamp <= parse.value[k].timestamp
       /\ j # k => parse.value[j].id # parse.value[k].id

\* C21: exportTranscriptions leaves the store unchanged; with 'json' its value
\* parses back to exactly one record per distinct id of ids that is a live
\* Note, each equal field for field to the stored Note, in ascending timestamp;
\* with a format the code does not know it raises an error.
C21_JsonExportIsTheSelectedNotes ==
  [][last'.op = "exportTranscriptions"
       => /\ file' = file
          /\ last'.format = "json"
               => (last'.result.ok /\ IsExportOf(JsonParse(last'.result.value), last'.ids))
          /\ last'.format \notin {"json", "markdown", "txt"} => ~last'.result.ok]_vars

\* Two Notes whose texts need escaping have been exported as JSON, the later
\* one named first.
C21_Witness ==
  /\ last.op = "exportTranscriptions"
  /\ last.format = "json"
  /\ Len(last.ids) = 2
  /\ last.ids[1] \in DOMAIN transcriptions
  /\ last.ids[2] \in DOMAIN transcriptions
  /\ transcriptions[last.ids[1]].timestamp > transcriptions[last.ids[2]].timestamp
  /\ transcriptions[last.ids[1]].formatted_text = T_quote
  /\ transcriptions[last.ids[2]].raw_text = T_escapes

\* The enabled dictionary entries.
EnabledEntries ==
  {dictionary_entries[i] : i \in {j \in DOMAIN dictionary_entries :
                                    dictionary_entries[j].is_enabled = 1}}

\* Whether entry e matches text s at position i, with the case sensitivity of e.
EntryMatchesAt(e, s, i) == LitAt(s, i, e.spoken_phrase, e.is_case_sensitive = 0)

\* Whether the phrase of p is a proper substring of the phrase of q.
IsProperSubphrase(p, q) ==
  /\ Len(p.spoken_phrase) < Len(q.spoken_phrase)
  /\ \E i \in 1..Len(q.spoken_phrase) : LitAt(q.spoken_phrase, i, p.spoken_phrase, FALSE)

\* Whether every match of an enabled phrase in s lies inside the match of q at
\* position i, and none of them is a different phrase of the same length.
OnlyInside(q, s, i) ==
  \A r \in EnabledEntries, k \in 1..Len(s) :
    EntryMatchesAt(r, s, k)
      => /\ k >= i
         /\ k + Len(r.spoken_phrase) <= i + Len(q.spoken_phrase)
         /\ Len(r.spoken_phrase) = Len(q.spoken_phrase) => r = q

\* C22: applyReplacements leaves a text alone in which no enabled phrase
\* occurs, and when an enabled phrase Q that has an enabled proper sub-phrase
\* occurs in the text, with every match of an enabled phrase inside that
\* occurrence, the result is the text with the occurrence replaced by the
\* replacement of Q: the shorter phrase rewrites no part of it.
C22_LongerPhraseIsReplacedWhole ==
  last.op = "dict:apply-replacements"
    => /\ (\A r \in EnabledEntries, k \in 1..Len(last.text) :
             ~EntryMatchesAt(r, last.text, k))
            => last.result.result = last.text
       /\ \A q \in EnabledEntries, i \in 1..Len(last.text) :
            (/\ \E p \in EnabledEntries : IsProperSubphrase(p, q)
             /\ EntryMatchesAt(q, last.text, i)
             /\ OnlyInside(q, last.text, i))
              => last.result.result =
                   Slice(last.text, 1, i) \o q.replacement
                     \o Slice(last.text, i + Len(q.spoken_phrase), Len(last.text) + 1)

\* C23: an add whose spoken_phrase another entry holds, and an update of an
\* entry's spoken_phrase to one another entry holds, leave the dictionary
\* entries unchanged and return a failure result (success false with an
\* error message) instead of throwing.
C23_DuplicatePhraseIsRecoverable ==
  [][(\/ /\ last'.op = "dict:add-entry"
         /\ \E i \in DOMAIN dictionary_entries :
              dictionary_entries[i].spoken_phrase = last'.data.spoken_phrase
      \/ /\ last'.op = "dict:update-entry"
         /\ last'.id \in DOMAIN dictionary_entries
         /\ IsDefined(last'.updates.spoken_phrase)
         /\ \E i \in DOMAIN dictionary_entries \ {last'.id} :
              dictionary_entries[i].spoken_phrase = last'.updates.spoken_phrase[1])
       => /\ dictionary_entries' = dictionary_entries
          /\ ~last'.result.threw
          /\ ~last'.result.success
          /\ "error" \in DOMAIN last'.result]_vars

\* The live Notes: the ids a stored row has.
LiveNotes == DOMAIN transcriptions

\* C24: after any sequence of inserts, updates, toggles and deletes,
\* getStats().total is the number of live Notes, getStats().favorites is the
\* number of live Notes whose favorite flag is set (is not 0), and favorites
\* is at most total.
C24_StatsCountLiveNotes ==
  /\ getStats.total = Cardinality(LiveNotes)
  /\ getStats.favorites =
       Cardinality({i \in LiveNotes : transcriptions[i].is_favorite # 0})
  /\ getStats.favorites <= getStats.total

\* C25 as stated: after every close() the connection is released and the
\* backup holds exactly the Notes that were live at the moment of closing.
C25_CloseLeavesBackupOfLiveNotes ==
  [][last'.op = "close"
       => /\ ~dbOpen'
          /\ bak'.exists
          /\ bak'.transcriptions = transcriptions]_vars

\* C25, amended: every close() runs backup() on the file as it is at that
\* moment and then releases the connection, leaving the live file unchanged;
\* when the copy of that backup succeeds, the backup holds exactly the Notes
\* that were live at the moment of closing.
C25_CloseBacksUpThenReleases ==
  [][last'.op = "close"
       => /\ ~dbOpen'
          /\ file' = file
          /\ last'.copyOk => (bak'.exists /\ bak'.transcriptions = transcriptions)]_vars

\* A store that holds a Note has been closed, and the copy succeeded.
C25_Witness ==
  /\ last.op = "close"
  /\ last.copyOk
  /\ ~dbOpen
  /\ bak.exists
  /\ bak.transcriptions = transcriptions
  /\ DOMAIN transcriptions # {}

\* C26: a startup during which a statement of the migration fails throws,
\* leaves no connection and records no schema version; the startup after a
\* failed one finds no version and runs the script again, to the end when
\* nothing fails; and whenever a version is recorded, everything the script
\* creates exists.
C26_FailedMigrationRecordsNoVersion ==
  [][(~dbOpen /\ last'.op = "constructor")
       => /\ (last'.version = 0 /\ last'.failAt # 0)
               => (last'.result = "throws" /\ ~dbOpen' /\ RecordedVersion' = 0)
          /\ (last.op = "constructor" /\ last.result = "throws")
               => /\ last'.version = 0
                  /\ last'.failAt = 0
                       => /\ last'.result = "ok"
                          /\ dbOpen'
                          /\ schema_version' = {TargetVersion}
          /\ RecordedVersion' # 0 => Range(MigrationScript) \subseteq sqlite_master']_vars

\* A startup has failed at the last statement: every table exists, the version
\* table among them, and no version is recorded.
C26_Witness ==
  /\ last.op = "constructor"
  /\ last.result = "throws"
  /\ last.failAt = Len(MigrationScript) + 1
  /\ Range(MigrationScript) \subseteq sqlite_master
  /\ schema_version = {}
  /\ ~dbOpen

\* The ids getTranscriptions({isFavorite: flag}) returns.
ListedByFavorite(flag) ==
  LET listing == getTranscriptions([isFavorite |-> Some(flag), startDate |-> Undefined,
                                    endDate |-> Undefined, tags |-> Undefined,
                                    limit |-> Undefined, offset |-> Undefined])
  IN {listing.rows[k].id : k \in 1..Len(listing.rows)}

\* C28: after any sequence of saveTranscription, updateTranscription and
\* toggleFavorite calls, with any is_favorite number the calls accept, every
\* stored Note's is_favorite is 0 or 1, and every live Note is returned by
\* exactly one of getTranscriptions({isFavorite: true}) and
\* getTranscriptions({isFavorite: false}).
C28_FavoriteFlagIsZeroOrOne ==
  \A i \in DOMAIN transcriptions :
    /\ transcriptions[i].is_favorite \in {0, 1}
    /\ (i \in ListedByFavorite(TRUE)) # (i \in ListedByFavorite(FALSE))
\* The hold messages a handler call has sent.
HoldSent(call) ==
  IF call.op \in {"keydown", "keyup"}
    THEN Range(call.sent) \cap {"start-recording", "stop-recording"}
    ELSE {}

ActiveRecorders == {r \in DOMAIN recorders : recorders[r] = "recording"}

\* C30: in the renderer at most one recorder records at any time, whatever
\* messages arrive while a startRecording waits for its stream or while a
\* recording is processed; and every microphone stream that is open is the one
\* in streamRef, the only one stopRecording and cancelRecording stop.
C30_OneRecordingAtATime ==
  /\ Cardinality(ActiveRecorders) <= 1
  /\ streams \subseteq {streamRef}

====
